---- MODULE Spec2Model ----
(***************************************************************************)
(* A model of the TOON codec (ToonEncoder / ToonParser and the utilities   *)
(* both depend on).  Text is a sequence of one-character strings; a JSON   *)
(* value is a tagged record [t, v]; an object is a sequence of [k, v]      *)
(* entries kept in the order JavaScript enumerates own properties.         *)
(***************************************************************************)
EXTENDS Integers, Sequences, FiniteSets, TLC

\* ------------------------------------------------------------------------
\* Characters and JavaScript string primitives (0-based indices, as in code)
\* ------------------------------------------------------------------------
Digit == {"0", "1", "2", "3", "4", "5", "6", "7", "8", "9"}

Letter == {"a", "b", "c", "d", "e", "f", "g", "h", "i", "j", "k", "l", "m",
           "n", "o", "p", "q", "r", "s", "t", "u", "v", "w", "x", "y", "z",
           "A", "B", "C", "D", "E", "F", "G", "H", "I", "J", "K", "L", "M",
           "N", "O", "P", "Q", "R", "S", "T", "U", "V", "W", "X", "Y", "Z"}

\* the characters String.prototype.trim removes (those the model's alphabet has)
WhiteSpace == {" ", "\t", "\n", "\r"}

DigitVal(c) == CASE c = "0" -> 0 [] c = "1" -> 1 [] c = "2" -> 2 [] c = "3" -> 3
                 [] c = "4" -> 4 [] c = "5" -> 5 [] c = "6" -> 6 [] c = "7" -> 7
                 [] c = "8" -> 8 [] c = "9" -> 9

DigitChar(d) == <<"0", "1", "2", "3", "4", "5", "6", "7", "8", "9">>[d + 1]

Min(a, b) == IF a < b THEN a ELSE b
Max(a, b) == IF a > b THEN a ELSE b

\* str.slice(a, b); a negative b counts from the end
slice(s, a, b) ==
  LET n  == Len(s)
      lo == IF a < 0 THEN Max(n + a, 0) ELSE Min(a, n)
      hi == IF b < 0 THEN Max(n + b, 0) ELSE Min(b, n)
  IN  IF lo >= hi THEN <<>> ELSE SubSeq(s, lo + 1, hi)

\* str.slice(a)
sliceFrom(s, a) == slice(s, a, Len(s))

\* str.indexOf(c) for a one-character c: 0-based, -1 when absent
indexOf(s, c) ==
  IF \E i \in 1..Len(s) : s[i] = c
  THEN (CHOOSE i \in 1..Len(s) : s[i] = c /\ \A j \in 1..(i - 1) : s[j] # c) - 1
  ELSE -1

includes(s, c) == \E i \in 1..Len(s) : s[i] = c

startsWith(s, p) == Len(s) >= Len(p) /\ SubSeq(s, 1, Len(p)) = p

endsWith(s, p) == Len(s) >= Len(p) /\ SubSeq(s, Len(s) - Len(p) + 1, Len(s)) = p

\* str.trim()
trim(s) ==
  IF \A i \in 1..Len(s) : s[i] \in WhiteSpace THEN <<>>
  ELSE LET lo == CHOOSE i \in 1..Len(s) :
                   s[i] \notin WhiteSpace /\ \A j \in 1..(i - 1) : s[j] \in WhiteSpace
           hi == CHOOSE i \in 1..Len(s) :
                   s[i] \notin WhiteSpace /\ \A j \in (i + 1)..Len(s) : s[j] \in WhiteSpace
       IN  SubSeq(s, lo, hi)

RECURSIVE concat(_)
\* parts.join('')
concat(parts) == IF parts = <<>> THEN <<>> ELSE Head(parts) \o concat(Tail(parts))

RECURSIVE join(_, _)
\* parts.join(sep)
join(parts, sep) ==
  IF parts = <<>> THEN <<>>
  ELSE IF Len(parts) = 1 THEN parts[1]
  ELSE parts[1] \o sep \o join(Tail(parts), sep)

RECURSIVE split(_, _)
\* str.split(c) for a one-character separator
split(s, c) ==
  LET i == indexOf(s, c)
  IN  IF i = -1 THEN <<s>> ELSE <<slice(s, 0, i)>> \o split(sliceFrom(s, i + 1), c)

RECURSIVE repeat(_, _)
\* c.repeat(n)
repeat(c, n) == IF n <= 0 THEN <<>> ELSE <<c>> \o repeat(c, n - 1)

AllDigits(s) == Len(s) > 0 /\ \A i \in 1..Len(s) : s[i] \in Digit

RECURSIVE DigitsToInt(_)
DigitsToInt(s) ==
  IF s = <<>> THEN 0 ELSE 10 * DigitsToInt(SubSeq(s, 1, Len(s) - 1)) + DigitVal(s[Len(s)])

RECURSIVE IntToDigits(_)
\* decimal digits of a natural number
IntToDigits(n) ==
  IF n < 10 THEN <<DigitChar(n)>> ELSE IntToDigits(n \div 10) \o <<DigitChar(n % 10)>>


\* the largest decimal exponent of a finite double (Number.MAX_VALUE ~ 1.8e308)
MaxDecimalExponent == 308

\* ------------------------------------------------------------------------
\* Results of operations that may throw
\* ------------------------------------------------------------------------
Ok(v) == [err |-> "none", line |-> 0, v |-> v]
Err(kind, line) == [err |-> kind, line |-> line, v |-> <<>>]
IsOk(r) == r.err = "none"

\* ------------------------------------------------------------------------
\* JSON values
\* ------------------------------------------------------------------------
\* Every value carries every field, so that any two values can be compared:
\* t is the type tag; b, n, s, items, entries hold a boolean, a number, a
\* string, an array's elements, an object's [k, v] entries.
\* A finite number m * 10^e is n = <<m, e>>, normalised: m has no factor 10,
\* and e = 0 when m = 0. NaN, the infinities and -0 are the pairs named NaN,
\* PosInfinity, NegInfinity and NegZero below.
NullV == [t |-> "null", b |-> FALSE, n |-> <<0, 0>>, s |-> <<>>, items |-> <<>>, entries |-> <<>>]
BoolV(x) == [NullV EXCEPT !.t = "bool", !.b = x]
NumV(m, e) == [NullV EXCEPT !.t = "num", !.n = <<m, e>>]
IntV(x) == NumV(x, 0)
StrV(x) == [NullV EXCEPT !.t = "str", !.s = x]
ArrV(x) == [NullV EXCEPT !.t = "arr", !.items = x]
ObjV(x) == [NullV EXCEPT !.t = "obj", !.entries = x]
EmptyObj == ObjV(<<>>)

\* ------------------------------------------------------------------------
\* JavaScript objects: own string keys enumerate array-index keys first, in
\* ascending numeric order, then the other keys in insertion order
\* ------------------------------------------------------------------------
IsArrayIndex(k) == AllDigits(k) /\ (Len(k) = 1 \/ k[1] # "0")

objKeys(entries) == [i \in 1..Len(entries) |-> entries[i].k]

objHas(entries, k) == \E i \in 1..Len(entries) : entries[i].k = k

objGet(entries, k) == entries[CHOOSE i \in 1..Len(entries) : entries[i].k = k].v

\* obj[k] = v
objSet(entries, k, v) ==
  IF objHas(entries, k)
  THEN [i \in 1..Len(entries) |-> IF entries[i].k = k THEN [k |-> k, v |-> v] ELSE entries[i]]
  ELSE IF IsArrayIndex(k)
  THEN LET before == {i \in 1..Len(entries) :
                        IsArrayIndex(entries[i].k) /\ DigitsToInt(entries[i].k) < DigitsToInt(k)}
           n == Cardinality(before)
       IN  SubSeq(entries, 1, n) \o <<[k |-> k, v |-> v]>> \o SubSeq(entries, n + 1, Len(entries))
  ELSE Append(entries, [k |-> k, v |-> v])

\* ------------------------------------------------------------------------
\* utils/string-utils.ts
\* ------------------------------------------------------------------------
\* /^0\d+$/
LEADING_ZEROS_REGEX(s) == Len(s) >= 2 /\ s[1] = "0" /\ AllDigits(Tail(s))

\* The parts of a number's text, as NUMBER_REGEX and Number() read them:
\* integer and fraction digits, and the digits and sign of the exponent.
Unsigned(s) == IF Len(s) > 0 /\ s[1] = "-" THEN Tail(s) ELSE s

\* the position of the exponent letter, or the length when there is none
ExpPos(body) ==
  Min(IF includes(body, "e") THEN indexOf(body, "e") ELSE Len(body),
      IF includes(body, "E") THEN indexOf(body, "E") ELSE Len(body))

Decimal(mant, dot) ==
  [dotted |-> dot # -1,
   ip |-> IF dot = -1 THEN mant ELSE slice(mant, 0, dot),
   fp |-> IF dot = -1 THEN <<>> ELSE sliceFrom(mant, dot + 1)]

DecimalOf(mant) == Decimal(mant, indexOf(mant, "."))

ExponentOf(expo) ==
  [neg |-> Len(expo) > 0 /\ expo[1] = "-",
   digits |-> IF Len(expo) > 0 /\ expo[1] \in {"+", "-"} THEN Tail(expo) ELSE expo]

NumberSyntax(body, ePos) ==
  [mant |-> DecimalOf(slice(body, 0, ePos)),
   hasExp |-> ePos # Len(body),
   expo |-> ExponentOf(sliceFrom(body, ePos + 1))]

PartsOf(body) == NumberSyntax(body, ExpPos(body))

NumberParts(s) == PartsOf(Unsigned(s))

MatchesNumber(q) ==
  /\ AllDigits(q.mant.ip)
  /\ q.mant.dotted => AllDigits(q.mant.fp)
  /\ q.hasExp => AllDigits(q.expo.digits)

\* /^-?\d+(?:\.\d+)?(?:e[+-]?\d+)?$/i
NUMBER_REGEX(s) == MatchesNumber(NumberParts(s))

\* /^[A-Za-z_][A-Za-z0-9_]*$/
IDENTIFIER_REGEX(s) ==
  /\ Len(s) > 0
  /\ s[1] \in Letter \cup {"_"}
  /\ \A i \in 2..Len(s) : s[i] \in Letter \cup Digit \cup {"_"}

\* /^[A-Za-z_][A-Za-z0-9_.]*$/
KEY_REGEX(s) ==
  /\ Len(s) > 0
  /\ s[1] \in Letter \cup {"_"}
  /\ \A i \in 2..Len(s) : s[i] \in Letter \cup Digit \cup {"_", "."}

RECURSIVE unescapeFrom(_, _, _)
\* the while loop of unescapeString from 0-based position i on
unescapeFrom(str, i, strict) ==
  IF i >= Len(str) THEN Ok(<<>>)
  ELSE IF str[i + 1] = "\\" /\ i + 1 < Len(str)
  THEN LET next == str[i + 2]
           rest == unescapeFrom(str, i + 2, strict)
           out(c) == IF IsOk(rest) THEN Ok(c \o rest.v) ELSE rest
       IN  CASE next = "\\" -> out(<<"\\">>)
             [] next = "\"" -> out(<<"\"">>)
             [] next = "n"  -> out(<<"\n">>)
             [] next = "r"  -> out(<<"\r">>)
             [] next = "t"  -> out(<<"\t">>)
             [] OTHER -> IF strict THEN Err("InvalidEscape", 0)
                         ELSE out(<<"\\", next>>)
  ELSE LET rest == unescapeFrom(str, i + 1, strict)
       IN  IF IsOk(rest) THEN Ok(<<str[i + 1]>> \o rest.v) ELSE rest

unescapeString(str, strict) ==
  IF ~includes(str, "\\") THEN Ok(str) ELSE unescapeFrom(str, 0, strict)

\* unescapeString is called without its second argument: strict defaults to true
parseKey(key) ==
  IF startsWith(key, <<"\"">>) /\ endsWith(key, <<"\"">>)
  THEN unescapeString(slice(key, 1, -1), TRUE)
  ELSE Ok(key)

RECURSIVE Normalise(_, _)
Normalise(m, e) ==
  IF m = 0 THEN <<0, 0>>
  ELSE IF m % 10 = 0 THEN Normalise(m \div 10, e + 1)
  ELSE <<m, e>>

\* how many times the character c ends str
TrailingCount(str, c) ==
  LET others == {i \in 1..Len(str) : str[i] # c}
  IN  IF others = {} THEN Len(str)
      ELSE Len(str) - (CHOOSE i \in others : \A j \in others : j <= i)

\* the number sign * digits * 10^e, whose digits end with tz zeros
mantissaOf(neg, digits, tz, e) ==
  Normalise((IF neg THEN -1 ELSE 1) * DigitsToInt(SubSeq(digits, 1, Len(digits) - tz)), e + tz)

\* the number of the parts q: <<mantissa, exponent>>
ValueOfParts(neg, q) ==
  mantissaOf(neg, q.mant.ip \o q.mant.fp, TrailingCount(q.mant.ip \o q.mant.fp, "0"),
             (IF q.expo.neg THEN -1 ELSE 1) * DigitsToInt(q.expo.digits) - Len(q.mant.fp))

\* Number(trimmed) for a string NUMBER_REGEX accepts: <<mantissa, exponent>>
NumberOf(s) == ValueOfParts(s[1] = "-", NumberParts(s))

\* the decimal magnitude of |m|
Magnitude(a, e) == Len(IntToDigits(a)) + e

\* isFinite(Number(trimmed)): the decimal magnitude stays below 2^1024 ~ 1.8e308
NumberIsFinite(me) ==
  Magnitude(IF me[1] < 0 THEN 0 - me[1] ELSE me[1], me[2]) <= MaxDecimalExponent

\* the numbers that are no finite m * 10^e, and the negative zero
NaN == <<0, MaxDecimalExponent + 1>>
PosInfinity == <<1, MaxDecimalExponent + 1>>
NegInfinity == <<-1, MaxDecimalExponent + 1>>
NegZero == <<0, -1>>

\* the string unescaped, or the throw
stringOf(u) == IF IsOk(u) THEN Ok(StrV(u.v)) ELSE u

\* a finite number, else the string as it stands
numberOr(trimmed, num) ==
  IF NumberIsFinite(num) THEN Ok(NumV(num[1], num[2])) ELSE Ok(StrV(trimmed))

\* parsePrimitive after value.trim()
primitiveOf(trimmed) ==
  IF Len(trimmed) > 0 /\ trimmed[1] = "\"" /\ trimmed[Len(trimmed)] = "\""
  THEN stringOf(unescapeString(slice(trimmed, 1, -1), TRUE))
  ELSE IF trimmed = <<"t", "r", "u", "e">> THEN Ok(BoolV(TRUE))
  ELSE IF trimmed = <<"n", "u", "l", "l">> THEN Ok(NullV)
  ELSE IF trimmed = <<"f", "a", "l", "s", "e">> THEN Ok(BoolV(FALSE))
  ELSE IF LEADING_ZEROS_REGEX(trimmed) THEN Ok(StrV(trimmed))
  ELSE IF NUMBER_REGEX(trimmed) THEN numberOr(trimmed, NumberOf(trimmed))
  ELSE Ok(StrV(trimmed))

parsePrimitive(value) == primitiveOf(trim(value))

RECURSIVE splitFrom(_, _, _, _, _)
\* the while loop of splitDelimited: position i, token `current`, quote state
splitFrom(str, delimiter, i, current, inQuotes) ==
  IF i >= Len(str) THEN <<current>>
  ELSE LET char == str[i + 1]
       IN  IF char = "\\" /\ i + 1 < Len(str)
           THEN splitFrom(str, delimiter, i + 2, current \o <<char, str[i + 2]>>, inQuotes)
           ELSE IF char = "\""
           THEN splitFrom(str, delimiter, i + 1, Append(current, char), ~inQuotes)
           ELSE IF ~inQuotes /\ char = delimiter
           THEN <<current>> \o splitFrom(str, delimiter, i + 1, <<>>, inQuotes)
           ELSE splitFrom(str, delimiter, i + 1, Append(current, char), inQuotes)

splitDelimited(str, delimiter) == splitFrom(str, delimiter, 0, <<>>, FALSE)

RECURSIVE colonFrom(_, _, _, _)
colonFrom(str, i, inQuotes, escaped) ==
  IF i >= Len(str) THEN -1
  ELSE LET char == str[i + 1]
       IN  IF escaped THEN colonFrom(str, i + 1, inQuotes, FALSE)
           ELSE IF char = "\\" THEN colonFrom(str, i + 1, inQuotes, TRUE)
           ELSE IF char = "\"" THEN colonFrom(str, i + 1, ~inQuotes, FALSE)
           ELSE IF ~inQuotes /\ char = ":" THEN i
           ELSE colonFrom(str, i + 1, inQuotes, FALSE)

findUnquotedColon(str) == colonFrom(str, 0, FALSE, FALSE)

isIdentifierSegments(key) ==
  LET segments == split(key, ".")
  IN  \A i \in 1..Len(segments) : IDENTIFIER_REGEX(segments[i])

RECURSIVE escapeString_NoBackslash(_)
\* escapeString without its first replace, of the backslash
escapeString_NoBackslash(value) ==
  IF value = <<>> THEN <<>>
  ELSE LET c == Head(value)
           e == CASE c = "\"" -> <<"\\", "\"">>
                  [] c = "\n" -> <<"\\", "n">>
                  [] c = "\r" -> <<"\\", "r">>
                  [] c = "\t" -> <<"\\", "t">>
                  [] OTHER -> <<c>>
       IN  e \o escapeString_NoBackslash(Tail(value))

RECURSIVE escapeString(_)
\* the five global replaces act on disjoint characters, backslash first
escapeString(value) ==
  IF value = <<>> THEN <<>>
  ELSE LET c == Head(value)
           e == CASE c = "\\" -> <<"\\", "\\">>
                  [] c = "\"" -> <<"\\", "\"">>
                  [] c = "\n" -> <<"\\", "n">>
                  [] c = "\r" -> <<"\\", "r">>
                  [] c = "\t" -> <<"\\", "t">>
                  [] OTHER -> <<c>>
       IN  e \o escapeString(Tail(value))

\* needsQuoting without the switch on the reserved keywords
needsQuoting_NoKeywords(value, delimiter) ==
  \/ Len(value) = 0
  \/ value # trim(value)
  \/ NUMBER_REGEX(value)
  \/ LEADING_ZEROS_REGEX(value)
  \/ value[1] = "-"
  \/ \E i \in 1..Len(value) :
       value[i] \in {":", "\"", "\\", "[", "]", "{", "}", "\n", "\r", "\t", delimiter}

needsQuoting(value, delimiter) ==
  \/ Len(value) = 0
  \/ value # trim(value)
  \/ value \in {<<"t", "r", "u", "e">>, <<"f", "a", "l", "s", "e">>,
                <<"n", "u", "l", "l">>, <<"-">>}
  \/ NUMBER_REGEX(value)
  \/ LEADING_ZEROS_REGEX(value)
  \/ value[1] = "-"
  \/ \E i \in 1..Len(value) :
       value[i] \in {":", "\"", "\\", "[", "]", "{", "}", "\n", "\r", "\t", delimiter}

quoteString(value, delimiter) ==
  IF ~needsQuoting(value, delimiter) THEN value
  ELSE <<"\"">> \o escapeString(value) \o <<"\"">>

encodeKey(key, delimiter) ==
  IF KEY_REGEX(key) THEN key ELSE quoteString(key, delimiter)

\* the plain decimal text of ds * 10^e, for digits ds
plainDecimal(ds, e) ==
  IF e >= 0 THEN ds \o repeat("0", e)
  ELSE IF Len(ds) > 0 - e
  THEN SubSeq(ds, 1, Len(ds) + e) \o <<".">> \o SubSeq(ds, Len(ds) + e + 1, Len(ds))
  ELSE <<"0", ".">> \o repeat("0", (0 - e) - Len(ds)) \o ds

\* the number of digits before the decimal point of ds * 10^e
pointOf(ds, e) == Len(ds) + e

\* n.toString() has an exponent part when |n| >= 1e21 or |n| < 1e-6
hasExponent(ds, e) == pointOf(ds, e) > 21 \/ pointOf(ds, e) <= -6

\* n.toString() in exponential notation: d[.ddd]e(+|-)x
exponential(ds, x) ==
  <<ds[1]>> \o (IF Len(ds) > 1 THEN <<".">> \o Tail(ds) ELSE <<>>)
    \o <<"e", IF x >= 0 THEN "+" ELSE "-">> \o IntToDigits(IF x >= 0 THEN x ELSE 0 - x)

\* the digits of ds without the last d of them, rounded to the nearest;
\* for d <= 0 the digits with -d zeros after them
roundedDigits(ds, d) ==
  IF d <= 0 THEN ds \o repeat("0", 0 - d)
  ELSE IF d > Len(ds) THEN <<"0">>
  ELSE IntToDigits(DigitsToInt(SubSeq(ds, 1, Len(ds) - d))
                     + (IF DigitVal(ds[Len(ds) - d + 1]) >= 5 THEN 1 ELSE 0))

\* digits with a decimal point before the last k of them
pointAt(digits, k) ==
  SubSeq(digits, 1, Len(digits) - k) \o <<".">>
    \o SubSeq(digits, Len(digits) - k + 1, Len(digits))

\* |n|.toFixed(f) for |n| < 1e21, from the digits of round(|n| * 10^f)
fixedText(digits, f) == pointAt(repeat("0", f + 1 - Len(digits)) \o digits, f)

\* n.toFixed(f): the text of n.toString() when |n| >= 1e21
toFixed(neg, ds, e, f) ==
  (IF neg THEN <<"-">> ELSE <<>>)
    \o (IF pointOf(ds, e) > 21 THEN exponential(ds, pointOf(ds, e) - 1)
        ELSE fixedText(roundedDigits(ds, 0 - f - e), f))

\* str without its last k characters and without a "." before them
withoutPoint(str, k) ==
  IF k < Len(str) /\ str[Len(str) - k] = "." THEN SubSeq(str, 1, Len(str) - k - 1)
  ELSE SubSeq(str, 1, Len(str) - k)

\* str.replace(/\.?0+$/, '')
replaceTrailingZeros(str) ==
  IF Len(str) > 0 /\ str[Len(str)] = "0" THEN withoutPoint(str, TrailingCount(str, "0"))
  ELSE str

\* str.replace(/(\.\d*?)0+$/, '$1'): the zeros that end a fraction
replaceFractionZeros(str) ==
  IF /\ includes(str, ".")
     /\ AllDigits(sliceFrom(str, indexOf(str, ".") + 1))
     /\ str[Len(str)] = "0"
  THEN SubSeq(str, 1, Len(str) - TrailingCount(str, "0"))
  ELSE str

\* str.replace(/\.$/, '')
replaceFinalPoint(str) ==
  IF Len(str) > 0 /\ str[Len(str)] = "." THEN SubSeq(str, 1, Len(str) - 1) ELSE str

\* canonicalNumber for a finite n = (neg ? -1 : 1) * ds * 10^e other than 0
canonicalText(neg, ds, e) ==
  IF hasExponent(ds, e) THEN replaceTrailingZeros(toFixed(neg, ds, e, 20))
  ELSE replaceFinalPoint(replaceFractionZeros(
         (IF neg THEN <<"-">> ELSE <<>>) \o plainDecimal(ds, e)))

\* canonicalNumber(n): -0 is made 0, whose n.toString() is "0"
canonicalNumber(me) ==
  IF ~NumberIsFinite(me) THEN <<"n", "u", "l", "l">>
  ELSE IF me[1] = 0 THEN <<"0">>
  ELSE canonicalText(me[1] < 0, IntToDigits(IF me[1] < 0 THEN 0 - me[1] ELSE me[1]), me[2])

\* ------------------------------------------------------------------------
\* utils/parse-utils.ts
\* ------------------------------------------------------------------------
isArrayHeader(content) == includes(content, "[") /\ includes(content, "]")

isKeyValue(content) == includes(content, ":")

\* the length of the longest prefix of str made of characters of S
PrefixLength(str, S) ==
  IF \A i \in 1..Len(str) : str[i] \in S THEN Len(str)
  ELSE (CHOOSE i \in 1..Len(str) : str[i] \notin S /\ \A j \in 1..(i - 1) : str[j] \in S) - 1

\* the value of the digits read; NaN (no digit) becomes 0
digitsValue(neg, ds) ==
  IF ds = <<>> THEN 0 ELSE IF neg THEN 0 - DigitsToInt(ds) ELSE DigitsToInt(ds)

\* the longest run of digits of s
leadingDigits(s) == slice(s, 0, PrefixLength(s, Digit))

\* an optional sign, then the digits
signedInt(s) ==
  digitsValue(Len(s) > 0 /\ s[1] = "-",
              leadingDigits(IF Len(s) > 0 /\ s[1] \in {"+", "-"} THEN Tail(s) ELSE s))

\* parseInt(str, 10) || 0: leading white space, an optional sign, then the
\* longest run of digits; NaN (no digit) becomes 0
parseIntOr0(str) == signedInt(sliceFrom(str, PrefixLength(str, WhiteSpace)))

\* afterBracket.match(/\{([^}]+)\}/): the captured group, or "no match"
fieldsMatch(str) ==
  LET opens == {i \in 1..Len(str) :
                  /\ str[i] = "{"
                  /\ \E j \in (i + 2)..Len(str) :
                       str[j] = "}" /\ \A k \in (i + 1)..(j - 1) : str[k] # "}"}
  IN  IF opens = {} THEN [matched |-> FALSE, group |-> <<>>]
      ELSE LET i == CHOOSE x \in opens : \A y \in opens : x <= y
               j == CHOOSE x \in (i + 2)..Len(str) :
                      str[x] = "}" /\ \A k \in (i + 1)..(x - 1) : str[k] # "}"
           IN  [matched |-> TRUE, group |-> SubSeq(str, i + 1, j - 1)]

\* the results of a map: the first throw, or the values in order
consResult(h, r) == IF ~IsOk(h) THEN h ELSE IF ~IsOk(r) THEN r ELSE Ok(<<h.v>> \o r.v)

RECURSIVE parseKeys(_)
\* fields.map(f => parseKey(f.trim())): the first throw aborts
parseKeys(fs) ==
  IF fs = <<>> THEN Ok(<<>>)
  ELSE consResult(parseKey(trim(Head(fs))), parseKeys(Tail(fs)))

\* the delimiter a bracket content ends with, the comma otherwise
delimiterOf(bracketContent) ==
  IF endsWith(bracketContent, <<"\t">>) THEN "\t"
  ELSE IF endsWith(bracketContent, <<"|">>) THEN "|"
  ELSE ","

\* the bracket content without its delimiter mark
lengthStrOf(bracketContent) ==
  IF \/ endsWith(bracketContent, <<"\t">>)
     \/ endsWith(bracketContent, <<"|">>)
     \/ endsWith(bracketContent, <<",">>)
  THEN slice(bracketContent, 0, -1)
  ELSE bracketContent

\* content.slice(bracketEnd + 1).replace(/:$/, '')
afterBracketOf(rest) == IF endsWith(rest, <<":">>) THEN slice(rest, 0, -1) ELSE rest

\* the field list of a header, when it has one
fieldsFrom(hasBrace, fm, delimiter) ==
  IF hasBrace /\ fm.matched
  THEN [has |-> TRUE, keys |-> parseKeys(splitDelimited(fm.group, delimiter))]
  ELSE [has |-> FALSE, keys |-> Ok(<<>>)]

fieldsOf(afterBracket, delimiter) ==
  fieldsFrom(includes(afterBracket, "{"), fieldsMatch(afterBracket), delimiter)

\* the header returned, or the throw of a field's parseKey
headerWith(key, length, delimiter, fs) ==
  IF ~IsOk(fs.keys) THEN fs.keys
  ELSE Ok([key |-> key, length |-> length, delimiter |-> delimiter,
           hasFields |-> fs.has, fields |-> fs.keys.v])

headerOf(key, bracketContent, afterBracket) ==
  headerWith(key, parseIntOr0(lengthStrOf(bracketContent)), delimiterOf(bracketContent),
             fieldsOf(afterBracket, delimiterOf(bracketContent)))

headerAt(content, bracketStart, bracketEnd) ==
  IF bracketStart = -1 \/ bracketEnd = -1
  THEN Ok([key |-> <<>>, length |-> 0, delimiter |-> ",", hasFields |-> FALSE, fields |-> <<>>])
  ELSE headerOf(IF bracketStart > 0 THEN trim(slice(content, 0, bracketStart)) ELSE <<>>,
                slice(content, bracketStart + 1, bracketEnd),
                afterBracketOf(sliceFrom(content, bracketEnd + 1)))

\* An array header: key = <<>> stands for both undefined and '' (the code only
\* tests the key's truthiness); hasFields tells undefined from a field list
parseArrayHeader(content) ==
  headerAt(content, indexOf(content, "["), indexOf(content, "]"))

RECURSIVE depthFrom(_, _, _, _, _)
\* the for loop of getDepth: the number of spaces counted, or -1 for the throw
depthFrom(line, i, spaces, indentSize, strict) ==
  IF i >= Len(line) THEN spaces
  ELSE IF line[i + 1] = " " THEN depthFrom(line, i + 1, spaces + 1, indentSize, strict)
  ELSE IF line[i + 1] = "\t"
  THEN IF strict THEN -1 ELSE depthFrom(line, i + 1, spaces + indentSize, indentSize, strict)
  ELSE spaces

\* getDepth without the check of the multiple
getDepth_NoMultiple(line, lineNum, indentSize, strict) ==
  LET spaces == depthFrom(line, 0, 0, indentSize, strict)
  IN  IF spaces = -1 THEN Err("TabsInIndentation", lineNum + 1)
      ELSE Ok(spaces \div indentSize)

getDepth(line, lineNum, indentSize, strict) ==
  LET spaces == depthFrom(line, 0, 0, indentSize, strict)
  IN  IF spaces = -1 THEN Err("TabsInIndentation", lineNum + 1)
      ELSE IF strict /\ spaces % indentSize # 0 THEN Err("IndentationMultiple", lineNum + 1)
      ELSE Ok(spaces \div indentSize)

indent(depth, indentSize) == repeat(" ", depth * indentSize)

\* ------------------------------------------------------------------------
\* encoders/value-encoder.ts (key = <<>> stands for undefined and for '')
\* ------------------------------------------------------------------------
isPrimitive(value) == value.t \in {"null", "str", "num", "bool"}

encodePrimitiveValue(value, delimiter) ==
  CASE value.t = "null" -> <<"n", "u", "l", "l">>
    [] value.t = "bool" -> IF value.b THEN <<"t", "r", "u", "e">> ELSE <<"f", "a", "l", "s", "e">>
    [] value.t = "num"  -> IF ~NumberIsFinite(value.n) THEN <<"n", "u", "l", "l">>
                           ELSE IF value.n = NegZero THEN <<"0">>
                           ELSE canonicalNumber(value.n)
    [] value.t = "str"  -> quoteString(value.s, delimiter)

RECURSIVE encodeKeys(_, _)
encodeKeys(fields, delimiter) ==
  IF fields = <<>> THEN <<>>
  ELSE <<encodeKey(Head(fields), delimiter)>> \o encodeKeys(Tail(fields), delimiter)

arrayHeader(key, length, delimiter, hasFields, fields) ==
  (IF key # <<>> THEN encodeKey(key, delimiter) ELSE <<>>)
    \o <<"[">> \o IntToDigits(length) \o (IF delimiter = "," THEN <<>> ELSE <<delimiter>>)
    \o <<"]">>
    \o (IF hasFields
        THEN <<"{">> \o join(encodeKeys(fields, delimiter), <<delimiter>>) \o <<"}">>
        ELSE <<>>)
    \o <<":">>

\* The key lists of two objects are equal once sorted: both hold distinct keys,
\* so they are equal as sets.  tabular = FALSE stands for the null result.
checkTabular(value) ==
  IF Len(value) = 0 \/ \E i \in 1..Len(value) : value[i].t # "obj"
  THEN [tabular |-> FALSE, fields |-> <<>>]
  ELSE LET keySet(o) == {o.entries[i].k : i \in 1..Len(o.entries)}
       IN  IF \A i \in 1..Len(value) :
                /\ Len(value[i].entries) = Len(value[1].entries)
                /\ keySet(value[i]) = keySet(value[1])
                /\ \A j \in 1..Len(value[i].entries) : isPrimitive(value[i].entries[j].v)
           THEN [tabular |-> TRUE, fields |-> objKeys(value[1].entries)]
           ELSE [tabular |-> FALSE, fields |-> <<>>]

keyPrefix(key, delimiter) ==
  IF key # <<>> THEN encodeKey(key, delimiter) \o <<":", " ">> ELSE <<>>

encodePrimitive(value, depth, indentSize, delimiter, key) ==
  <<indent(depth, indentSize) \o keyPrefix(key, delimiter) \o encodePrimitiveValue(value, delimiter)>>

encodeNumber(value, depth, indentSize, delimiter, key) ==
  IF ~NumberIsFinite(value.n) THEN encodePrimitive(NullV, depth, indentSize, delimiter, key)
  ELSE <<indent(depth, indentSize) \o keyPrefix(key, delimiter)
           \o canonicalNumber(IF value.n = NegZero THEN <<0, 0>> ELSE value.n)>>

encodeString(value, depth, indentSize, delimiter, key) ==
  <<indent(depth, indentSize) \o keyPrefix(key, delimiter) \o quoteString(value.s, delimiter)>>

\* ------------------------------------------------------------------------
\* a[0].localeCompare(b[0]): letters compare without case first, lower case
\* before upper case on a tie; digits sort before letters, other characters
\* before digits
\* ------------------------------------------------------------------------
LowerSeq == <<"a", "b", "c", "d", "e", "f", "g", "h", "i", "j", "k", "l", "m",
              "n", "o", "p", "q", "r", "s", "t", "u", "v", "w", "x", "y", "z">>

UpperSeq == <<"A", "B", "C", "D", "E", "F", "G", "H", "I", "J", "K", "L", "M",
              "N", "O", "P", "Q", "R", "S", "T", "U", "V", "W", "X", "Y", "Z">>

OtherSeq == <<"\t", "\n", "\r", " ", "_", "-", ",", ":", ".", "\"", "[", "]", "{", "}",
              "\\", "|">>

PosIn(seq, c) == CHOOSE i \in 1..Len(seq) : seq[i] = c

PrimaryRank(c) ==
  IF c \in Digit THEN 100 + DigitVal(c)
  ELSE IF \E i \in 1..26 : LowerSeq[i] = c THEN 200 + PosIn(LowerSeq, c)
  ELSE IF \E i \in 1..26 : UpperSeq[i] = c THEN 200 + PosIn(UpperSeq, c)
  ELSE IF \E i \in 1..Len(OtherSeq) : OtherSeq[i] = c THEN PosIn(OtherSeq, c)
  ELSE 0

CaseRank(c) == IF \E i \in 1..26 : UpperSeq[i] = c THEN 1 ELSE 0

RECURSIVE lexLess(_, _)
\* a < b lexicographically, for sequences of ranks
lexLess(a, b) ==
  IF b = <<>> THEN FALSE
  ELSE IF a = <<>> THEN TRUE
  ELSE IF Head(a) # Head(b) THEN Head(a) < Head(b)
  ELSE lexLess(Tail(a), Tail(b))

\* a.localeCompare(b) < 0
localeLess(a, b) ==
  LET pa == [i \in 1..Len(a) |-> PrimaryRank(a[i])]
      pb == [i \in 1..Len(b) |-> PrimaryRank(b[i])]
      ca == [i \in 1..Len(a) |-> CaseRank(a[i])]
      cb == [i \in 1..Len(b) |-> CaseRank(b[i])]
  IN  lexLess(pa, pb) \/ (pa = pb /\ lexLess(ca, cb))

RECURSIVE sortEntries(_)
\* entries.sort(...): a stable insertion sort by key
sortEntries(entries) ==
  IF Len(entries) <= 1 THEN entries
  ELSE LET s == sortEntries(SubSeq(entries, 1, Len(entries) - 1))
           x == entries[Len(entries)]
           n == Cardinality({i \in 1..Len(s) : ~localeLess(x.k, s[i].k)})
       IN  SubSeq(s, 1, n) \o <<x>> \o SubSeq(s, n + 1, Len(s))

\* ------------------------------------------------------------------------
\* encoder.ts: ToonEncoder, options o = [indentSize, delimiter, lineEnding,
\* sortKeys, trailingNewline]
\* ------------------------------------------------------------------------
\* the line standing for "TypeError: cannot read properties of undefined"
Poison == <<"TypeError">>

HasPoison(lines) == \E i \in 1..Len(lines) : lines[i] = Poison

RECURSIVE encodeValue(_, _, _, _)
RECURSIVE encodeArray(_, _, _, _)
RECURSIVE encodeListArray(_, _, _, _)
RECURSIVE encodeListItems(_, _, _)
RECURSIVE encodeListItem(_, _, _)
RECURSIVE encodeObject(_, _, _, _)
RECURSIVE encodeEntries(_, _, _)
RECURSIVE encodeObjectAsListItem(_, _, _)

encodeValue(o, value, depth, key) ==
  CASE value.t \in {"null", "bool"} ->
         encodePrimitive(value, depth, o.indentSize, o.delimiter, key)
    [] value.t = "num" -> encodeNumber(value, depth, o.indentSize, o.delimiter, key)
    [] value.t = "str" -> encodeString(value, depth, o.indentSize, o.delimiter, key)
    [] value.t = "arr" -> encodeArray(o, value.items, depth, key)
    [] value.t = "obj" -> encodeObject(o, value.entries, depth, key)

encodeInlineArray(o, value, depth, key) ==
  LET values == [i \in 1..Len(value) |-> encodePrimitiveValue(value[i], o.delimiter)]
      header == arrayHeader(key, Len(value), o.delimiter, FALSE, <<>>)
      valuesStr == join(values, <<o.delimiter>>)
  IN  <<indent(depth, o.indentSize) \o header \o <<" ">> \o valuesStr>>

encodeTabular(o, value, depth, key, fields) ==
  LET header == arrayHeader(key, Len(value), o.delimiter, TRUE, fields)
      row(obj) == join([i \in 1..Len(fields) |->
                          encodePrimitiveValue(objGet(obj.entries, fields[i]), o.delimiter)],
                       <<o.delimiter>>)
  IN  <<indent(depth, o.indentSize) \o header>>
        \o [i \in 1..Len(value) |-> indent(depth + 1, o.indentSize) \o row(value[i])]

encodeArray(o, value, depth, key) ==
  IF Len(value) = 0
  THEN <<indent(depth, o.indentSize) \o arrayHeader(key, 0, o.delimiter, FALSE, <<>>)>>
  ELSE IF \A i \in 1..Len(value) : isPrimitive(value[i])
  THEN encodeInlineArray(o, value, depth, key)
  ELSE LET tabular == checkTabular(value)
       IN  IF tabular.tabular THEN encodeTabular(o, value, depth, key, tabular.fields)
           ELSE encodeListArray(o, value, depth, key)

\* an array item: "- " and its header line, then the lines of its content
arrayItemLines(o, depth, itemLines) ==
  <<indent(depth + 1, o.indentSize) \o <<"-", " ">> \o trim(itemLines[1])>> \o Tail(itemLines)

\* the lines of one item of encodeListArray; depth is the array's depth
encodeListItem(o, item, depth) ==
  IF isPrimitive(item)
  THEN <<indent(depth + 1, o.indentSize) \o <<"-", " ">>
           \o encodePrimitiveValue(item, o.delimiter)>>
  ELSE IF item.t = "arr"
  THEN arrayItemLines(o, depth, encodeValue(o, item, depth + 1, <<>>))
  ELSE encodeObjectAsListItem(o, item.entries, depth + 1)

\* the for loop of encodeListArray; depth is the array's depth
encodeListItems(o, items, depth) ==
  IF items = <<>> THEN <<>>
  ELSE encodeListItem(o, Head(items), depth) \o encodeListItems(o, Tail(items), depth)

encodeListArray(o, value, depth, key) ==
  <<indent(depth, o.indentSize) \o arrayHeader(key, Len(value), o.delimiter, FALSE, <<>>)>>
    \o encodeListItems(o, value, depth)

\* for (const [k, v] of entries) lines.push(...this.encodeValue(v, depth, k))
encodeEntries(o, entries, depth) ==
  IF entries = <<>> THEN <<>>
  ELSE encodeValue(o, Head(entries).v, depth, Head(entries).k)
         \o encodeEntries(o, Tail(entries), depth)

\* the lines of an object whose entries are in the order of emission
objectLines(o, entries, depth, key) ==
  IF key = <<>> THEN encodeEntries(o, entries, depth)
  ELSE <<indent(depth, o.indentSize) \o encodeKey(key, o.delimiter) \o <<":">>>>
         \o encodeEntries(o, entries, depth + 1)

encodeObject(o, value, depth, key) ==
  objectLines(o, IF o.sortKeys THEN sortEntries(value) ELSE value, depth, key)

\* an object item: "- " and the first line of its first field, then the other
\* fields; the first field has no line when its key and its value are empty
objectItemLines(o, depth, first, others) ==
  IF first = <<>> \/ HasPoison(first) THEN <<Poison>>
  ELSE <<indent(depth, o.indentSize) \o <<"-", " ">> \o trim(first[1])>>
         \o encodeEntries(o, others, depth + 1)

encodeObjectAsListItem(o, value, depth) ==
  IF Len(value) = 0 THEN <<indent(depth, o.indentSize) \o <<"-">>>>
  ELSE objectItemLines(o, depth, encodeValue(o, value[1].v, depth, value[1].k), Tail(value))

\* lines.join(lineEnding), with the trailing line ending when asked for
outputOf(o, output) ==
  IF o.trailingNewline /\ ~endsWith(output, o.lineEnding)
  THEN Ok(output \o o.lineEnding)
  ELSE Ok(output)

\* the text of the lines, or the TypeError thrown on the way
textOf(o, lines) ==
  IF HasPoison(lines) THEN Err("TypeError", 0) ELSE outputOf(o, join(lines, o.lineEnding))

\* ToonEncoder.encode
encode(o, value) == textOf(o, encodeValue(o, value, 0, <<>>))

\* the sort of encodeObject done on the object itself
argumentAfter_InPlace(o, value) ==
  IF o.sortKeys /\ value.t = "obj" THEN ObjV(sortEntries(value.entries)) ELSE value

\* the argument of encode after the call: Object.entries(value) is a new
\* array, so the sort orders that array and value keeps its own key order
argumentAfter(o, value) == value

\* ------------------------------------------------------------------------
\* parsers/array-parser.ts: a result is Ok([value, nextIdx]) or the throw
\* ------------------------------------------------------------------------
Step(value, nextIdx) == Ok([value |-> value, nextIdx |-> nextIdx])

RECURSIVE parsePrimitives(_)
\* values.map(v => parsePrimitive(v.trim())): the first throw aborts
parsePrimitives(values) ==
  IF values = <<>> THEN Ok(<<>>)
  ELSE consResult(parsePrimitive(trim(Head(values))), parsePrimitives(Tail(values)))

RECURSIVE rowObject(_, _, _, _)
RECURSIVE rowField(_, _, _, _, _)
\* for (i < fields.length) obj[fields[i]] = parsePrimitive(values[i]?.trim() || '')
rowObject(fields, values, i, obj) ==
  IF i >= Len(fields) THEN Ok(obj)
  ELSE rowField(fields, values, i, obj,
                parsePrimitive(IF i < Len(values) THEN trim(values[i + 1]) ELSE <<>>))

\* obj[fields[i]] = p and the fields after it; or the throw of p
rowField(fields, values, i, obj, p) ==
  IF IsOk(p) THEN rowObject(fields, values, i + 1, objSet(obj, fields[i + 1], p.v)) ELSE p

\* result.push(obj); or the throw met in the row
pushRow(result, obj) == IF IsOk(obj) THEN Ok(Append(result, ObjV(obj.v))) ELSE obj

\* one row of parseTabularArray: the objects so far with the row's object
tabularRow(header, strict, result, values) ==
  IF strict /\ Len(values) # Len(header.fields) THEN Err("RowWidthMismatch", 0)
  ELSE pushRow(result, rowObject(header.fields, values, 0, <<>>))

\* one turn of the while loop of parseTabularArray: Ok(result) or the throw
tabularStep(lines, idx, currentDepth, header, strict, result) ==
  IF lines[idx + 1].depth = currentDepth + 1
  THEN tabularRow(header, strict, result,
                  splitDelimited(lines[idx + 1].content, header.delimiter))
  ELSE Ok(result)

RECURSIVE tabularLoop(_, _, _, _, _, _)
\* the while loop of parseTabularArray, entered with the outcome of the turn before
tabularLoop(lines, idx, currentDepth, header, strict, turn) ==
  IF ~IsOk(turn) THEN turn
  ELSE IF idx >= Len(lines) \/ lines[idx + 1].depth < currentDepth + 1
  THEN IF strict /\ Len(turn.v) # header.length
       THEN Err("TabularLengthMismatch", 0)
       ELSE Step(ArrV(turn.v), idx)
  ELSE tabularLoop(lines, idx + 1, currentDepth, header, strict,
                   tabularStep(lines, idx, currentDepth, header, strict, turn.v))

\* parseTabularArray enforcing the declared length whatever the mode
parseTabularArray_AlwaysStrict(lines, startIdx, currentDepth, header, strict) ==
  IF header.length < 0 THEN Err("RangeError", 0)
  ELSE tabularLoop(lines, startIdx + 1, currentDepth, header, TRUE, Ok(<<>>))

\* new Array(header.length) throws a RangeError for a negative length
parseTabularArray(lines, startIdx, currentDepth, header, strict) ==
  IF header.length < 0 THEN Err("RangeError", 0)
  ELSE tabularLoop(lines, startIdx + 1, currentDepth, header, strict, Ok(<<>>))

RECURSIVE parseObject(_, _, _, _)
RECURSIVE objectLoop(_, _, _, _, _)
RECURSIVE objectStep(_, _, _, _, _)
RECURSIVE objectNext(_, _, _, _)
RECURSIVE parseArrayContent(_, _, _, _, _, _)
RECURSIVE parseListArray(_, _, _, _, _)
RECURSIVE listLoop(_, _, _, _, _, _)
RECURSIVE listStep(_, _, _, _, _)
RECURSIVE listNext(_, _, _, _, _)

\* obj[key] = result.value, going on at result.nextIdx; or the throw of result
setEntry(obj, key, result) ==
  IF IsOk(result) THEN Step(objSet(obj, key, result.v.value), result.v.nextIdx)
  ELSE result

\* obj[key] = p, going on at nextIdx; or the throw of p
setPrimitive(obj, key, p, nextIdx) ==
  IF IsOk(p) THEN Step(objSet(obj, key, p.v), nextIdx) ELSE p

\* the turn without the idx++ made before `continue` on a line with no colon
objectStep_NoAdvance(lines, idx, currentDepth, strict, obj) ==
  LET line == lines[idx + 1]
      colonIdx == findUnquotedColon(line.content)
      keyPart == trim(slice(line.content, 0, colonIdx))
      valuePart == trim(sliceFrom(line.content, colonIdx + 1))
  IN  IF colonIdx = -1
      THEN IF strict THEN Err("MissingColon", idx + 1) ELSE Step(obj, idx)
      ELSE IF includes(keyPart, "[") /\ includes(keyPart, "]")
      THEN LET header == parseArrayHeader(keyPart)
           IN  IF ~IsOk(header) THEN header
               ELSE setEntry(obj, header.v.key,
                             parseArrayContent(lines, idx, currentDepth, header.v,
                                               valuePart, strict))
      ELSE LET key == parseKey(keyPart)
           IN  IF ~IsOk(key) THEN key
               ELSE IF valuePart # <<>>
               THEN setPrimitive(obj, key.v, parsePrimitive(valuePart), idx + 1)
               ELSE IF idx + 1 < Len(lines) /\ lines[idx + 2].depth > currentDepth
               THEN setEntry(obj, key.v, parseObject(lines, idx + 1, currentDepth + 1, strict))
               ELSE Step(objSet(obj, key.v, EmptyObj), idx + 1)

\* one turn of the while loop of parseObject on a line of the object's depth:
\* Step(obj, idx) with the entries and the index after the turn, or the throw
objectStep(lines, idx, currentDepth, strict, obj) ==
  LET line == lines[idx + 1]
      colonIdx == findUnquotedColon(line.content)
      keyPart == trim(slice(line.content, 0, colonIdx))
      valuePart == trim(sliceFrom(line.content, colonIdx + 1))
  IN  IF colonIdx = -1
      THEN IF strict THEN Err("MissingColon", idx + 1) ELSE Step(obj, idx + 1)
      ELSE IF includes(keyPart, "[") /\ includes(keyPart, "]")
      THEN LET header == parseArrayHeader(keyPart)
           IN  IF ~IsOk(header) THEN header
               ELSE setEntry(obj, header.v.key,
                             parseArrayContent(lines, idx, currentDepth, header.v,
                                               valuePart, strict))
      ELSE LET key == parseKey(keyPart)
           IN  IF ~IsOk(key) THEN key
               ELSE IF valuePart # <<>>
               THEN setPrimitive(obj, key.v, parsePrimitive(valuePart), idx + 1)
               ELSE IF idx + 1 < Len(lines) /\ lines[idx + 2].depth > currentDepth
               THEN setEntry(obj, key.v, parseObject(lines, idx + 1, currentDepth + 1, strict))
               ELSE Step(objSet(obj, key.v, EmptyObj), idx + 1)

\* the while loop of parseObject without its break at a line of lesser
\* depth: such a line is passed over like a deeper one
objectLoop_NoBreak(lines, idx, currentDepth, strict, obj) ==
  IF idx >= Len(lines) THEN Step(ObjV(obj), idx)
  ELSE objectNext(lines, currentDepth, strict,
                  IF lines[idx + 1].depth # currentDepth THEN Step(obj, idx + 1)
                  ELSE objectStep(lines, idx, currentDepth, strict, obj))

\* the while loop of parseObject
objectLoop(lines, idx, currentDepth, strict, obj) ==
  IF idx >= Len(lines) \/ lines[idx + 1].depth < currentDepth
  THEN Step(ObjV(obj), idx)
  ELSE objectNext(lines, currentDepth, strict,
                  IF lines[idx + 1].depth > currentDepth THEN Step(obj, idx + 1)
                  ELSE objectStep(lines, idx, currentDepth, strict, obj))

\* after one turn: the throw, or the loop again from where the turn ended
objectNext(lines, currentDepth, strict, turn) ==
  IF IsOk(turn) THEN objectLoop(lines, turn.v.nextIdx, currentDepth, strict, turn.v.value)
  ELSE turn

parseObject(lines, startIdx, currentDepth, strict) ==
  objectLoop(lines, startIdx, currentDepth, strict, <<>>)

\* the array of the values parsed; its length is checked in strict mode
inlineArray(result, header, strict, nextIdx) ==
  IF ~IsOk(result) THEN result
  ELSE IF strict /\ Len(result.v) # header.length THEN Err("InlineLengthMismatch", 0)
  ELSE Step(ArrV(result.v), nextIdx)

\* the dispatch with the test of the fields before the test of the value
parseArrayContent_FieldsFirst(lines, startIdx, currentDepth, header, valuePart, strict) ==
  IF header.hasFields /\ Len(header.fields) > 0
  THEN parseTabularArray(lines, startIdx, currentDepth, header, strict)
  ELSE IF valuePart # <<>>
  THEN inlineArray(parsePrimitives(splitDelimited(valuePart, header.delimiter)),
                   header, strict, startIdx + 1)
  ELSE parseListArray(lines, startIdx, currentDepth, header, strict)

parseArrayContent(lines, startIdx, currentDepth, header, valuePart, strict) ==
  IF valuePart # <<>>
  THEN inlineArray(parsePrimitives(splitDelimited(valuePart, header.delimiter)),
                   header, strict, startIdx + 1)
  ELSE IF header.hasFields /\ Len(header.fields) > 0
  THEN parseTabularArray(lines, startIdx, currentDepth, header, strict)
  ELSE parseListArray(lines, startIdx, currentDepth, header, strict)

\* one further field of an object item: obj with the field, or the throw
fieldEntry(obj, fKey, fValue) ==
  IF ~IsOk(fKey) THEN fKey
  ELSE IF ~IsOk(fValue) THEN fValue
  ELSE Ok(objSet(obj, fKey.v, fValue.v))

\* one turn of the inner while loop of parseListArray
fieldStep(content, fieldColonIdx, obj) ==
  IF fieldColonIdx = -1 THEN Ok(obj)
  ELSE fieldEntry(obj, parseKey(trim(slice(content, 0, fieldColonIdx))),
                  parsePrimitive(trim(sliceFrom(content, fieldColonIdx + 1))))

RECURSIVE fieldLoop(_, _, _, _)
\* the inner while loop of parseListArray: further fields of an object item
fieldLoop(lines, idx, currentDepth, turn) ==
  IF ~IsOk(turn) THEN turn
  ELSE IF idx >= Len(lines) \/ lines[idx + 1].depth # currentDepth + 2
  THEN Step(ObjV(turn.v), idx)
  ELSE fieldLoop(lines, idx + 1, currentDepth,
                 fieldStep(lines[idx + 1].content,
                           findUnquotedColon(lines[idx + 1].content), turn.v))

\* an object item: its first field is `first`, further fields follow
objectItem(lines, currentDepth, key, first) ==
  IF ~IsOk(key) THEN key
  ELSE IF ~IsOk(first) THEN first
  ELSE fieldLoop(lines, first.v.nextIdx, currentDepth,
                 Ok(objSet(<<>>, key.v, first.v.value)))

\* a primitive as a Step
primitiveItem(p, nextIdx) == IF IsOk(p) THEN Step(p.v, nextIdx) ELSE p

\* an inline array item: its declared length is not compared with its values
inlineItem(itemHeader, values, nextIdx) ==
  IF ~IsOk(itemHeader) THEN itemHeader
  ELSE IF ~IsOk(values) THEN values
  ELSE Step(ArrV(values.v), nextIdx)

\* one item of parseListArray, on a line "- ..." of the items' depth:
\* Step(item, idx) with the item and the index after it, or the throw
listStep(lines, idx, currentDepth, strict, itemContent) ==
  IF includes(itemContent, "[") /\ includes(itemContent, "]")
  THEN LET colonIdx == indexOf(itemContent, ":")
           valuePart == IF colonIdx # -1 THEN trim(sliceFrom(itemContent, colonIdx + 1))
                        ELSE <<>>
           itemHeader == parseArrayHeader(itemContent)
       IN  inlineItem(itemHeader,
                      IF IsOk(itemHeader)
                      THEN parsePrimitives(splitDelimited(valuePart, itemHeader.v.delimiter))
                      ELSE itemHeader,
                      idx + 1)
  ELSE
    LET colonIdx == findUnquotedColon(itemContent)
        valuePart == trim(sliceFrom(itemContent, colonIdx + 1))
    IN  IF colonIdx = -1 THEN primitiveItem(parsePrimitive(itemContent), idx + 1)
        ELSE objectItem(lines, currentDepth, parseKey(trim(slice(itemContent, 0, colonIdx))),
               IF valuePart # <<>> THEN primitiveItem(parsePrimitive(valuePart), idx + 1)
               ELSE IF idx + 1 < Len(lines) /\ lines[idx + 2].depth > currentDepth + 1
               THEN parseObject(lines, idx + 1, currentDepth + 2, strict)
               ELSE Step(EmptyObj, idx + 1))

\* result.push(item), going on at the index after the item; or the throw
pushItem(result, item) ==
  IF IsOk(item) THEN Step(Append(result, item.v.value), item.v.nextIdx) ELSE item

\* the outer while loop of parseListArray
listLoop(lines, idx, currentDepth, header, strict, result) ==
  IF idx >= Len(lines) \/ lines[idx + 1].depth < currentDepth + 1
  THEN IF strict /\ Len(result) # header.length
       THEN Err("ListLengthMismatch", 0)
       ELSE Step(ArrV(result), idx)
  ELSE listNext(lines, currentDepth, header, strict,
                IF lines[idx + 1].depth = currentDepth + 1
                   /\ startsWith(lines[idx + 1].content, <<"-", " ">>)
                THEN pushItem(result, listStep(lines, idx, currentDepth, strict,
                                               sliceFrom(lines[idx + 1].content, 2)))
                ELSE Step(result, idx + 1))

\* after one turn: the throw, or the loop again from where the turn ended
listNext(lines, currentDepth, header, strict, turn) ==
  IF IsOk(turn)
  THEN listLoop(lines, turn.v.nextIdx, currentDepth, header, strict, turn.v.value)
  ELSE turn

parseListArray(lines, startIdx, currentDepth, header, strict) ==
  listLoop(lines, startIdx + 1, currentDepth, header, strict, <<>>)

\* ------------------------------------------------------------------------
\* parsers/path-expander.ts
\* ------------------------------------------------------------------------
RECURSIVE expandPaths(_, _)
RECURSIVE expandItems(_, _)
RECURSIVE expandEntries(_, _, _)
RECURSIVE setPath(_, _, _, _, _)

\* value.map(v => expandPaths(v, strict))
expandItems(items, strict) ==
  IF items = <<>> THEN Ok(<<>>)
  ELSE consResult(expandPaths(Head(items), strict), expandItems(Tail(items), strict))

\* The walk of one dotted key: descend `segments` from the i-th on in
\* `current` and assign the last one; the result is the updated container.
\* An array met on the way passes the typeof test ('object'), so the walk
\* goes into it and assigns a named property on the array, which leaves the
\* array's elements (its JSON value) as they were.  Every throw of expandPaths
\* is the same error, so the order of the checks does not show.
setPath(current, segments, i, val, strict) ==
  IF current.t = "arr" THEN Ok(current)
  ELSE IF i = Len(segments)
  THEN IF objHas(current.entries, segments[i]) /\ strict
       THEN Err("ExpansionConflict", 0)
       ELSE Ok(ObjV(objSet(current.entries, segments[i], val)))
  ELSE LET segment == segments[i]
           present == objHas(current.entries, segment)
           held == IF present THEN objGet(current.entries, segment) ELSE EmptyObj
           isObject == held.t \in {"obj", "arr"}
           child == IF present /\ isObject THEN held ELSE EmptyObj
           sub == setPath(child, segments, i + 1, val, strict)
       IN  IF present /\ ~isObject /\ strict THEN Err("ExpansionConflict", 0)
           ELSE IF ~IsOk(sub) THEN sub
           ELSE Ok(ObjV(objSet(current.entries, segment, sub.v)))

\* the for loop over Object.entries(value), building `result`
expandEntries(entries, strict, result) ==
  IF entries = <<>> THEN Ok(ObjV(result))
  ELSE LET key == Head(entries).k
           val == Head(entries).v
           expandedValue == expandPaths(val, strict)
       IN  IF includes(key, ".") /\ isIdentifierSegments(key)
           THEN LET walked == setPath(ObjV(result), split(key, "."), 1, expandedValue.v, strict)
                IN  IF ~IsOk(expandedValue) THEN expandedValue
                    ELSE IF ~IsOk(walked) THEN walked
                    ELSE expandEntries(Tail(entries), strict, walked.v.entries)
           ELSE IF ~IsOk(expandedValue) THEN expandedValue
           ELSE expandEntries(Tail(entries), strict, objSet(result, key, expandedValue.v))

expandPaths(value, strict) ==
  IF value.t \notin {"obj", "arr"} THEN Ok(value)
  ELSE IF value.t = "arr"
  THEN LET r == expandItems(value.items, strict)
       IN  IF IsOk(r) THEN Ok(ArrV(r.v)) ELSE r
  ELSE expandEntries(value.entries, strict, <<>>)

\* ------------------------------------------------------------------------
\* parser.ts: ToonParser, options p = [indentSize, strict, expandPaths]
\* ------------------------------------------------------------------------
\* the ParsedLine of a line of depth `depth`, before those of the lines after
\* it; or the first throw
consLine(line, depth, rest, indentSize) ==
  IF ~IsOk(depth) THEN depth
  ELSE IF ~IsOk(rest) THEN rest
  ELSE Ok(<<[content |-> sliceFrom(line, depth.v * indentSize),
             depth |-> depth.v, raw |-> line]>> \o rest.v)

RECURSIVE processLines_KeepBlank(_, _, _)
\* the loop of parseLines without the skip of the blank lines
processLines_KeepBlank(lines, i, p) ==
  IF i >= Len(lines) THEN Ok(<<>>)
  ELSE consLine(lines[i + 1], getDepth(lines[i + 1], i, p.indentSize, p.strict),
                processLines_KeepBlank(lines, i + 1, p), p.indentSize)

RECURSIVE processLines(_, _, _)
\* the for loop of parseLines over lines[i..]: the ParsedLine list, or the throw
processLines(lines, i, p) ==
  IF i >= Len(lines) THEN Ok(<<>>)
  ELSE IF trim(lines[i + 1]) = <<>> THEN processLines(lines, i + 1, p)
  ELSE consLine(lines[i + 1], getDepth(lines[i + 1], i, p.indentSize, p.strict),
                processLines(lines, i + 1, p), p.indentSize)

\* the value part after the first colon of an array's header line
valuePartOf(content, colonIdx) ==
  IF colonIdx # -1 THEN trim(sliceFrom(content, colonIdx + 1)) ELSE <<>>

\* the content of the array under its header, or the throw of the header
arrayOf(lines, startIdx, currentDepth, header, valuePart, strict) ==
  IF IsOk(header)
  THEN parseArrayContent(lines, startIdx, currentDepth, header.v, valuePart, strict)
  ELSE header

parseArray(lines, startIdx, currentDepth, p) ==
  arrayOf(lines, startIdx, currentDepth, parseArrayHeader(lines[startIdx + 1].content),
          valuePartOf(lines[startIdx + 1].content, indexOf(lines[startIdx + 1].content, ":")),
          p.strict)

\* the value of a { value, nextIdx } result, or the throw
valueOf(result) == IF IsOk(result) THEN Ok(result.v.value) ELSE result

\* the root is an array header line: an object when the header has a key
rootArray(lines, p, header) ==
  IF ~IsOk(header) THEN header
  ELSE IF header.v.key # <<>> THEN valueOf(parseObject(lines, 0, 0, p.strict))
  ELSE valueOf(parseArray(lines, 0, 0, p))

\* the value returned, or the throw
determineRootForm(lines, p) ==
  IF Len(lines) = 0 THEN Ok(EmptyObj)
  ELSE IF lines[1].depth = 0 /\ isArrayHeader(lines[1].content)
  THEN rootArray(lines, p, parseArrayHeader(lines[1].content))
  ELSE IF /\ Len(lines) = 1
          /\ lines[1].depth = 0
          /\ findUnquotedColon(lines[1].content) = -1
          /\ ~isArrayHeader(lines[1].content)
  THEN parsePrimitive(lines[1].content)
  ELSE valueOf(parseObject(lines, 0, 0, p.strict))

\* the root form of the processed lines, or the throw met processing them
rootOf(processedLines, p) ==
  IF ~IsOk(processedLines) THEN processedLines
  ELSE IF Len(processedLines.v) = 0 THEN Ok(EmptyObj)
  ELSE determineRootForm(processedLines.v, p)

parseLines(lines, p) == rootOf(processLines(lines, 0, p), p)

\* the value parsed with its dotted keys expanded when asked for
expanded(p, parsed) ==
  IF ~IsOk(parsed) THEN parsed
  ELSE IF p.expandPaths = "safe" THEN expandPaths(parsed.v, p.strict)
  ELSE parsed

\* ToonParser.parse
parse(p, content) ==
  IF content = <<>> \/ trim(content) = <<>> THEN Ok(EmptyObj)
  ELSE expanded(p, parseLines(split(content, "\n"), p))

\* ------------------------------------------------------------------------
\* validator.ts: ToonValidator.  An error is the thrown result; its kind
\* stands for its message, and its line for the number the message gives
\* ------------------------------------------------------------------------
\* message.match(/line (\d+)/i): the messages that end in "at line N"
lineMatch(error) == error.err \in {"TabsInIndentation", "IndentationMultiple", "MissingColon"}

extractErrorCode(error) ==
  CASE error.err \in {"InlineLengthMismatch", "TabularLengthMismatch", "ListLengthMismatch"} ->
         "ARRAY_LENGTH_MISMATCH"
    [] error.err = "IndentationMultiple" -> "INVALID_INDENTATION"
    [] error.err = "TabsInIndentation" -> "TAB_IN_INDENTATION"
    [] error.err = "InvalidEscape" -> "INVALID_ESCAPE"
    [] error.err = "RowWidthMismatch" -> "TABULAR_WIDTH_MISMATCH"
    [] error.err = "RangeError" -> "INVALID_ARRAY"
    [] OTHER -> "PARSE_ERROR"

\* lines[line - 1] || ''
contextOf(lines, line) == IF line <= Len(lines) THEN lines[line] ELSE <<>>

parseError(error, content) ==
  LET line == IF lineMatch(error) THEN error.line ELSE 1
  IN  [line |-> line, message |-> error.err, code |-> extractErrorCode(error),
       context |-> contextOf(split(content, "\n"), line)]

\* the result of validate: value is present when hasValue
resultOf(r, content) ==
  IF IsOk(r) THEN [valid |-> TRUE, errors |-> <<>>, hasValue |-> TRUE, value |-> r.v]
  ELSE [valid |-> FALSE, errors |-> <<parseError(r, content)>>, hasValue |-> FALSE,
        value |-> NullV]

\* ToonValidator.validate, p the options of its parser
validate(p, content) == resultOf(parse(p, content), content)

\* ToonValidator.validateBatch
validateBatch(p, documents) == [i \in 1..Len(documents) |-> validate(p, documents[i])]

\* ------------------------------------------------------------------------
\* stream-parser.ts: ToonStreamParser and parseStream
\* ------------------------------------------------------------------------
\* the options of the parser a ToonStreamParser builds
streamParser(options) ==
  [indentSize |-> 2, strict |-> options.strict, expandPaths |-> options.expandPaths]

\* this.push(result): a value is a 'data' event, and null ends the readable
\* side without one
pushed(data, result) == IF result = NullV THEN data ELSE Append(data, result)

\* resolve(chunks.length === 1 ? chunks[0] : chunks)
resolved(data) == Ok(IF Len(data) = 1 THEN data[1] ELSE ArrV(data))

RECURSIVE splitBlocks(_)
\* str.split('\n\n'): the separators are found from the left
splitBlocks(str) ==
  IF \E i \in 1..(Len(str) - 1) : str[i] = "\n" /\ str[i + 1] = "\n"
  THEN LET i == CHOOSE i \in 1..(Len(str) - 1) :
                  /\ str[i] = "\n" /\ str[i + 1] = "\n"
                  /\ \A j \in 1..(i - 1) : ~(str[j] = "\n" /\ str[j + 1] = "\n")
       IN  <<SubSeq(str, 1, i - 1)>> \o splitBlocks(SubSeq(str, i + 2, Len(str)))
  ELSE <<str>>

\* the readable side of a ToonLineParser: the values of its 'data' events,
\* whether null was pushed (the end of the readable side), and its error
Readable(data, eof, err) == [data |-> data, eof |-> eof, err |-> err]

\* this.push(parsed): null ends the readable side, and a value pushed after
\* that is the error of a push after the end
pushParsed(r, parsed) ==
  IF parsed = NullV THEN [r EXCEPT !.eof = TRUE]
  ELSE IF r.eof THEN [r EXCEPT !.err = "PushAfterEOF"]
  ELSE [r EXCEPT !.data = Append(r.data, parsed)]

\* one turn of the loop of _transform, and the body of _flush: a block that
\* is not blank is parsed and pushed; a throw leaves the loop
emitObject(p, r, obj, parsed) ==
  IF IsOk(parsed) THEN pushParsed(r, parsed.v) ELSE [r EXCEPT !.err = parsed.err]

RECURSIVE emitObjects(_, _, _)
emitObjects(p, r, objects) ==
  IF objects = <<>> \/ r.err \notin {"none", "PushAfterEOF"} THEN r
  ELSE emitObjects(p,
         IF trim(Head(objects)) # <<>>
         THEN emitObject(p, r, Head(objects), parse(p, Head(objects)))
         ELSE r,
         Tail(objects))

\* objects.pop() || ''
lastOf(objects) == objects[Len(objects)]
allButLast(objects) == SubSeq(objects, 1, Len(objects) - 1)

\* ------------------------------------------------------------------------
\* The inputs: JSON values handed to encode, and documents handed to parse
\* ------------------------------------------------------------------------
MaxDeclared == 3
MaxCount == 3
MaxWidth == 3
MaxLead == 4
MaxIndent == 3
MaxBlank == 2

Delimiters == {",", "\t", "|"}

DefaultEncoder ==
  [indentSize |-> 2, delimiter |-> ",", lineEnding |-> <<"\n">>,
   sortKeys |-> FALSE, trailingNewline |-> FALSE]

DefaultParser == [indentSize |-> 2, strict |-> TRUE, expandPaths |-> "off"]

Reserved == {<<"t", "r", "u", "e">>, <<"f", "a", "l", "s", "e">>, <<"n", "u", "l", "l">>}

Strings ==
  Reserved \cup
  {<<"x">>, <<>>, <<"7">>, <<"0", "7">>, <<"-">>, <<"a", " ", "b">>, <<" ", "x">>,
   <<"a", ",", "b">>, <<"a", "|", "b">>, <<"a", ":", "b">>, <<"[", "x", "]">>,
   <<"q", "\"">>, <<"a", "\\", "n">>, <<"a", "\n", "b">>}

Numbers == {NumV(0, 0), NumV(7, 0), NumV(-3, 0), NumV(2, 1), NumV(15, -1)}

Primitives == {NullV, BoolV(TRUE), BoolV(FALSE)} \cup Numbers \cup {StrV(s) : s \in Strings}

Keys == {<<"i", "d">>, <<"n">>, <<"a", " ", "b">>, <<"a", ".", "b">>, <<"[", "k", "]">>,
         <<"k", ",">>, <<"1">>, <<>>}

PlainKeys == {<<"i", "d">>, <<"n">>}

Entry(k, v) == [k |-> k, v |-> v]

\* a few primitives of each kind, for the larger shapes
SomePrimitives ==
  {NullV, BoolV(TRUE), IntV(7), StrV(<<"x">>), StrV(<<>>), StrV(<<"a", ",", "b">>)}
    \cup {StrV(r) : r \in Reserved}

Containers ==
  {ArrV(<<>>), EmptyObj} \cup
  {ArrV(<<p>>) : p \in SomePrimitives} \cup
  {ObjV(<<Entry(k, p)>>) : k \in PlainKeys, p \in SomePrimitives}

TabularArrays ==
  {ArrV(<<ObjV(<<Entry(k, p)>>)>>) : k \in Keys \ {<<>>}, p \in SomePrimitives} \cup
  {ArrV(<<ObjV(<<Entry(<<"i", "d">>, p), Entry(<<"n">>, q)>>),
          ObjV(<<Entry(<<"n">>, p), Entry(<<"i", "d">>, q)>>)>>) :
     p \in SomePrimitives, q \in SomePrimitives} \cup
  {ArrV(<<ObjV(<<Entry(<<"1">>, p), Entry(<<"n">>, q)>>)>>) : p, q \in SomePrimitives} \cup
  {ArrV(<<EmptyObj>>), ArrV(<<EmptyObj, EmptyObj>>)}

ListArrays ==
  {ArrV(<<p, c>>) : p \in SomePrimitives, c \in Containers} \cup
  {ArrV(<<c, d>>) : c \in Containers, d \in {ArrV(<<>>), ArrV(<<IntV(7)>>), EmptyObj}} \cup
  {ArrV(<<ObjV(<<Entry(<<"n">>, c)>>)>>) : c \in Containers} \cup
  {ArrV(<<ObjV(<<Entry(<<"i", "d">>, p), Entry(<<"n">>, c)>>)>>) :
     p \in {IntV(7)}, c \in Containers} \cup
  {ArrV(<<ObjV(<<Entry(<<>>, c)>>)>>) : c \in {EmptyObj, IntV(7)}} \cup
  {ArrV(<<ArrV(<<ArrV(<<IntV(7)>>)>>)>>),
   ArrV(<<ArrV(<<ObjV(<<Entry(<<"n">>, IntV(7))>>)>>)>>)}

\* strings and keys of each kind that the quoting rules name
QuotingStrings ==
  {<<"-", "x">>, <<"x", " ">>, <<"1", "e", "5">>, <<"3", ".", "1", "4">>, <<"a", "{", "b">>,
   <<"a", "}">>, <<"a", "\t", "b">>, <<"a", "\r">>, <<"a", "]">>, <<"a", "\\">>}

QuotingKeys ==
  Reserved \cup {<<"-">>, <<"-", "x">>, <<" ", "n">>, <<"7">>, <<"0", "7">>, <<"a", ":", "b">>,
                 <<"a", "\t", "b">>, <<"a", "|", "b">>, <<"a", "\"">>, <<"a", "\n">>,
                 <<"a", "{">>}

Values ==
  {StrV(s) : s \in QuotingStrings} \cup
  {ObjV(<<Entry(<<"n">>, StrV(s))>>) : s \in QuotingStrings} \cup
  {ObjV(<<Entry(k, IntV(7))>>) : k \in QuotingKeys} \cup
  Primitives \cup
  {ArrV(<<p, q>>) : p, q \in Primitives} \cup
  Containers \cup TabularArrays \cup ListArrays \cup
  {ObjV(<<Entry(k, p)>>) : k \in Keys, p \in Primitives} \cup
  {ObjV(<<Entry(k, c)>>) : k \in Keys, c \in Containers \cup TabularArrays \cup ListArrays} \cup
  {ObjV(<<Entry(<<"n">>, ObjV(<<Entry(<<"i", "d">>, c)>>)), Entry(<<"z">>, p)>>) :
     c \in Containers \cup TabularArrays, p \in {IntV(7)}}

\* --- documents: an array whose header declares a length ---
Token(i) == <<LowerSeq[i]>>

FieldLists == {<<<<"a">>>>, <<<<"a">>, <<"b">>>>, <<<<"2">>, <<"1">>>>, <<<<"a">>, <<"a">>>>}

ArrayDocs ==
  {d \in [kind : {"array"}, form : {"inline", "tabular", "list", "nested"},
          keyed : BOOLEAN, delim : {",", "|"}, declared : 0..MaxDeclared,
          count : 0..MaxCount, fields : FieldLists, width : 1..MaxWidth] :
     d.form = "tabular" \/ (d.fields = <<<<"a">>>> /\ d.width = 1)}

HeaderText(d, n) ==
  (IF d.keyed THEN <<"i", "t", "e", "m", "s">> ELSE <<>>)
    \o <<"[">> \o IntToDigits(n) \o (IF d.delim = "," THEN <<>> ELSE <<d.delim>>) \o <<"]">>

TokenList(d, n) == join([i \in 1..n |-> Token(i)], <<d.delim>>)

ArrayDocLines(d) ==
  CASE d.form = "inline" ->
         <<HeaderText(d, d.declared) \o <<":">>
             \o (IF d.count = 0 THEN <<>> ELSE <<" ">> \o TokenList(d, d.count))>>
    [] d.form = "tabular" ->
         <<HeaderText(d, d.declared) \o <<"{">> \o join(d.fields, <<d.delim>>) \o <<"}", ":">>>>
           \o [i \in 1..d.count |-> <<" ", " ">> \o TokenList(d, d.width)]
    [] d.form = "list" ->
         <<HeaderText(d, d.declared) \o <<":">>>>
           \o [i \in 1..d.count |-> <<" ", " ", "-", " ">> \o Token(i)]
    [] d.form = "nested" ->
         <<HeaderText(d, 1) \o <<":">>,
           <<" ", " ", "-", " ">> \o HeaderText([d EXCEPT !.keyed = FALSE], d.declared)
             \o <<":">> \o (IF d.count = 0 THEN <<>> ELSE <<" ">> \o TokenList(d, d.count))>>

\* --- documents: one line with a given run of leading spaces and tabs ---
LeadSeqs == UNION {[1..n -> {" ", "\t"}] : n \in 0..MaxLead}

IndentDocs == [kind : {"indent"}, lead : LeadSeqs, pos : {"first", "child"}]

IndentDocLines(d) ==
  IF d.pos = "first" THEN <<d.lead \o <<"n", "a", "m", "e", ":", " ", "v", "a", "l", "u", "e">>>>
  ELSE <<<<"o", "b", "j", ":">>, d.lead \o <<"k", "e", "y", ":", " ", "v", "a", "l", "u", "e">>>>

\* --- documents: two object entries with dotted and plain keys ---
PathEntries == {"prim", "dot", "dot3", "arr", "obj", "objx", "other", "dotobj"}

PathEntryLines(e) ==
  CASE e = "prim"   -> <<<<"a", ":", " ", "1">>>>
    [] e = "dot"    -> <<<<"a", ".", "b", ":", " ", "2">>>>
    [] e = "dot3"   -> <<<<"a", ".", "b", ".", "c", ":", " ", "3">>>>
    [] e = "arr"    -> <<<<"a", "[", "1", "]", ":", " ", "5">>>>
    [] e = "obj"    -> <<<<"a", ":">>, <<" ", " ", "b", ":", " ", "4">>>>
    [] e = "objx"   -> <<<<"a", ":">>, <<" ", " ", "x", ":", " ", "4">>>>
    [] e = "other"  -> <<<<"b", ":", " ", "6">>>>
    [] e = "dotobj" -> <<<<"a", ".", "b", ":">>, <<" ", " ", "c", ":", " ", "4">>>>

PathDocs == {d \in [kind : {"paths"}, first : PathEntries, second : PathEntries] :
               d.first # d.second}

PathDocLines(d) == PathEntryLines(d.first) \o PathEntryLines(d.second)

\* --- documents: a quoted string with one backslash sequence, as the root
\* scalar, as the value of a key, or as a key ---
EscapeChars == {"\\", "\"", "n", "r", "t", "x", "u", "0"}

EscapeDocs == [kind : {"escape"}, ch : EscapeChars, pos : {"root", "value", "key"}]

EscapeDocLines(d) ==
  CASE d.pos = "root"  -> <<<<"\"", "a", "\\", d.ch, "b", "\"">>>>
    [] d.pos = "value" -> <<<<"k", ":", " ", "\"", "a", "\\", d.ch, "b", "\"">>>>
    [] d.pos = "key"   -> <<<<"\"", "a", "\\", d.ch, "b", "\"", ":", " ", "v">>>>

\* --- numbers handed to canonicalNumber: integers, fractions, the ends of
\* the range n.toString() writes without an exponent, and the non-finite ---
NumberInputs ==
  {<<0, 0>>, NegZero, NaN, PosInfinity, NegInfinity,
   <<1, 0>>, <<-42, 0>>, <<314, -2>>, <<-314, -2>>, <<999999999, 3>>,
   <<1, -6>>, <<1, -7>>, <<15, -8>>, <<-1, -7>>, <<1, -20>>, <<1, -21>>, <<-1, -21>>,
   <<1234567, -21>>, <<1, 20>>, <<15, 19>>, <<1, 21>>, <<15, 20>>, <<-1, 21>>,
   <<1, 30>>, <<1, 100>>, <<1, -100>>}

\* --- documents with one malformed line: `before` blank lines, a well-formed
\* line or none, `between` blank lines, then the malformed line ---
FaultDocs ==
  [kind : {"fault"}, before : 0..MaxBlank, good : BOOLEAN, between : 0..MaxBlank,
   fault : {"spaces", "tab", "colon", "nested"}]

\* the same documents, and two whose error message gives no line
ValidatorDocs ==
  FaultDocs \cup
  [kind : {"fault"}, before : 0..MaxBlank, good : BOOLEAN, between : {0},
   fault : {"length", "escape"}]

FaultLines(f) ==
  CASE f = "spaces" -> <<<<" ", "b", ":", " ", "2">>>>
    [] f = "length" -> <<<<"k", "[", "3", "]", ":", " ", "a", ",", "b">>>>
    [] f = "escape" -> <<<<"b", ":", " ", "\"", "\\", "x", "\"">>>>
    [] f = "tab"    -> <<<<"\t", "b", ":", " ", "2">>>>
    [] f = "colon"  -> <<<<"o", "o", "p", "s">>>>
    [] f = "nested" -> <<<<"o", "b", "j", ":">>, <<" ", " ", "o", "o", "p", "s">>>>

FaultDocLines(d) ==
  [i \in 1..d.before |-> <<>>]
    \o (IF d.good THEN <<<<"a", ":", " ", "1">>>> ELSE <<>>)
    \o [i \in 1..d.between |-> <<>>]
    \o FaultLines(d.fault)

NumberDoc == [kind |-> "number"]

\* --- documents of a few lines: blank ones, one scalar, one key-value line,
\* one array header, and several lines ---
RootTexts ==
  {<<>>, <<" ", " ">>, <<"\n">>, <<" ", "\n", "\n">>,
   <<"h", "i">>, <<"4", "2">>, <<"t", "r", "u", "e">>, <<"\"", "a", ":", " ", "b", "\"">>,
   <<"\n", "h", "i">>, <<"h", "i", "\n">>, <<" ", " ", "h", "i">>, <<"h", "i", " ">>,
   <<"a", ":", " ", "1">>, <<"a", ":">>, <<"a", ":", "b">>,
   <<"[", "2", "]", ":", " ", "a", ",", "b">>, <<"k", "[", "2", "]", ":", " ", "a", ",", "b">>,
   <<"[", "0", "]", ":">>, <<"[", "x", "]">>, <<"\"", "[", "x", "]", "\"">>,
   <<"a", ":", " ", "1", "\n", "b", ":", " ", "2">>, <<"h", "i", "\n", "y", "o">>,
   <<"a", ":", " ", "1", "\n", "y", "o">>, <<"h", "i", "\n", "a", ":", " ", "1">>}

RootDocs == [kind : {"root"}, content : RootTexts]

\* --- documents with blank lines: `gaps[i]` copies of the line `blank`
\* before line i of `lines`, and gaps[Len(lines) + 1] of them at the end ---
BlankBases ==
  {<<<<"a", ":", " ", "1">>, <<"b", ":", " ", "2">>>>,
   <<<<"o", ":">>, <<" ", " ", "x", ":", " ", "1">>, <<" ", " ", "y", ":", " ", "2">>, <<"z", ":", " ", "3">>>>,
   <<<<"k", "[", "2", "]", "{", "i", "d", ",", "n", "}", ":">>, <<" ", " ", "1", ",", "a">>, <<" ", " ", "2", ",", "b">>>>,
   <<<<"k", "[", "2", "]", ":">>, <<" ", " ", "-", " ", "a">>, <<" ", " ", "-", " ", "b", ":", " ", "1">>, <<" ", " ", " ", " ", "c", ":", " ", "2">>>>,
   <<<<"[", "2", "]", ":", " ", "a", ",", "b">>>>,
   <<<<"h", "i">>>>,
   <<>>,
   <<<<"o", ":">>, <<" ", " ", " ", "x", ":", " ", "1">>>>,
   <<<<"k", "[", "3", "]", ":">>, <<" ", " ", "-", " ", "a">>, <<" ", " ", "-", " ", "b">>>>,
   <<<<"a", ":">>, <<" ", " ", "b", ":">>, <<" ", " ", " ", " ", "c", ":", " ", "1">>, <<"d", ":", " ", "2">>>>}

BlankLines == {<<>>, <<" ", " ">>, <<"\t">>}

BlankDocs ==
  UNION {[kind : {"blank"}, lines : {ls}, blank : BlankLines,
          gaps : [1..(Len(ls) + 1) -> 0..MaxBlank]] : ls \in BlankBases}

RECURSIVE BlankDocFrom(_, _)
BlankDocFrom(d, i) ==
  [j \in 1..d.gaps[i] |-> d.blank]
    \o (IF i > Len(d.lines) THEN <<>> ELSE <<d.lines[i]>> \o BlankDocFrom(d, i + 1))

BlankDocLines(d) == BlankDocFrom(d, 1)

\* --- documents of key lines: line i has the depth depths[i] and is "k: 1"
\* or, when opens[i], "k:", with the i-th letter for k; parseObject is called
\* on them at the index `start` for the depth `depth` ---
MaxLines == 3
MaxDepth == 2

KeyLetters == <<"a", "b", "c", "d", "e", "f">>

ObjectDocs ==
  UNION {[kind : {"object"}, depths : [1..n -> 0..MaxDepth], opens : [1..n -> BOOLEAN],
          start : 0..n, depth : 0..(MaxDepth - 1)] : n \in 1..MaxLines}

ObjectDocLines(d) ==
  [i \in 1..Len(d.depths) |->
     repeat(" ", 2 * d.depths[i]) \o <<KeyLetters[i], ":">>
       \o (IF d.opens[i] THEN <<>> ELSE <<" ", "1">>)]

\* --- documents: one header "[2" marker "]", with the fields {a,b} or
\* without, a value on its line or none, and two rows or two items under it ---
DispatchDocs ==
  {d \in [kind : {"dispatch"}, keyed : BOOLEAN, marker : {"", ",", "|", "\t"},
          fields : BOOLEAN, value : {"", ",", "|", "\t"}, follow : BOOLEAN] : TRUE}

\* the delimiter a marker stands for
MarkerDelimiter(marker) == IF marker \in {"|", "\t"} THEN marker ELSE ","

DispatchDocLines(d) ==
  <<(IF d.keyed THEN <<"k">> ELSE <<>>)
      \o <<"[", "2">> \o (IF d.marker = "" THEN <<>> ELSE <<d.marker>>) \o <<"]">>
      \o (IF d.fields THEN <<"{", "a", MarkerDelimiter(d.marker), "b", "}">> ELSE <<>>)
      \o <<":">>
      \o (IF d.value = "" THEN <<>> ELSE <<" ", "x", d.value, "y">>)>>
    \o (IF ~d.follow THEN <<>>
        ELSE IF d.fields
        THEN <<<<" ", " ", "p", MarkerDelimiter(d.marker), "q">>,
               <<" ", " ", "r", MarkerDelimiter(d.marker), "s">>>>
        ELSE <<<<" ", " ", "-", " ", "p">>, <<" ", " ", "-", " ", "q">>>>)

\* --- documents: one header with some text between its brackets, a value
\* on its line or none, and two items under it or none ---
BracketContents ==
  {<<>>, <<"x">>, <<"2", "x">>, <<"x", "2">>, <<"-", "1">>, <<"1", ".", "5">>,
   <<" ">>, <<"|">>, <<"0">>, <<"2">>, <<"2", "|">>, <<"2", "\t">>}

HeaderValues == {<<>>, <<"a">>, <<"a", ",", "b">>, <<"a", "|", "b">>}

HeaderDocs ==
  [kind : {"header"}, keyed : BOOLEAN, content : BracketContents,
   value : HeaderValues, follow : BOOLEAN]

HeaderDocLines(d) ==
  <<(IF d.keyed THEN <<"i", "t", "e", "m", "s">> ELSE <<>>)
      \o <<"[">> \o d.content \o <<"]", ":">>
      \o (IF d.value = <<>> THEN <<>> ELSE <<" ">> \o d.value)>>
    \o (IF d.follow THEN <<<<" ", " ", "-", " ", "p">>, <<" ", " ", "-", " ", "q">>>>
        ELSE <<>>)

\* --- documents: a list array under the key k, of one or two items ---
ItemKinds ==
  {"primitive", "number", "quoted", "quotedColon", "quotedBrackets", "inline",
   "object", "fields", "quotedField", "arrayField", "emptyField"}

MaxItems == 2

ListDocs ==
  {d \in [kind : {"list"}, items : UNION {[1..n -> ItemKinds] : n \in 1..MaxItems}] : TRUE}

\* the lines of an item: its line at depth 1, its further fields at depth 2
ItemLines(kind) ==
  CASE kind = "primitive" -> <<<<" ", " ", "-", " ", "p">>>>
    [] kind = "number" -> <<<<" ", " ", "-", " ", "4", "2">>>>
    [] kind = "quoted" -> <<<<" ", " ", "-", " ", "\"", "4", "2", "\"">>>>
    [] kind = "quotedColon" -> <<<<" ", " ", "-", " ", "\"", "a", ":", " ", "b", "\"">>>>
    [] kind = "quotedBrackets" -> <<<<" ", " ", "-", " ", "\"", "a", "[", "1", "]", "\"">>>>
    [] kind = "inline" -> <<<<" ", " ", "-", " ", "[", "2", "]", ":", " ", "x", ",", "y">>>>
    [] kind = "object" -> <<<<" ", " ", "-", " ", "a", ":", " ", "1">>>>
    [] kind = "fields" -> <<<<" ", " ", "-", " ", "a", ":", " ", "1">>, <<" ", " ", " ", " ", "b", ":", " ", "t", "r", "u", "e">>, <<" ", " ", " ", " ", "c", ":", " ", "z">>>>
    [] kind = "quotedField" -> <<<<" ", " ", "-", " ", "a", ":", " ", "1">>, <<" ", " ", " ", " ", "b", ":", " ", "\"", "x", ":", " ", "y", "\"">>>>
    [] kind = "arrayField" -> <<<<" ", " ", "-", " ", "a", ":", " ", "1">>, <<" ", " ", " ", " ", "t", "[", "2", "]", ":", " ", "x", ",", "y">>>>
    [] kind = "emptyField" -> <<<<" ", " ", "-", " ", "a", ":">>>>

RECURSIVE ItemsLines(_)
ItemsLines(kinds) ==
  IF kinds = <<>> THEN <<>> ELSE ItemLines(Head(kinds)) \o ItemsLines(Tail(kinds))

ListDocLines(d) ==
  <<<<"k", "[">> \o IntToDigits(Len(d.items)) \o <<"]", ":">>>> \o ItemsLines(d.items)

\* --- documents: up to MaxCursorLines lines, each one of the forms ---
LineForms ==
  <<[depth |-> 0, content |-> <<"a", ":">>],
    [depth |-> 0, content |-> <<"k", "[", "2", "]", ":">>],
    [depth |-> 0, content |-> <<"k", "[", "1", "]", "{", "a", "}", ":">>],
    [depth |-> 0, content |-> <<"[", "2", "]", ":", " ", "x", ",", "y">>],
    [depth |-> 1, content |-> <<"b", ":">>],
    [depth |-> 1, content |-> <<"-", " ", "p">>],
    [depth |-> 1, content |-> <<"-", " ", "a", ":">>],
    [depth |-> 1, content |-> <<"-", " ", "a", ":", " ", "1">>],
    [depth |-> 1, content |-> <<"x">>],
    [depth |-> 2, content |-> <<"c", ":", " ", "1">>]>>

MaxCursorLines == 3

CursorDocs ==
  {d \in [kind : {"cursor"},
          lines : UNION {[1..n -> 1..Len(LineForms)] : n \in 0..MaxCursorLines}] : TRUE}

CursorDocLines(d) ==
  [i \in 1..Len(d.lines) |->
     [j \in 1..(2 * LineForms[d.lines[i]].depth) |-> " "] \o LineForms[d.lines[i]].content]

ValueDoc == [kind |-> "value"]

DocText(d) ==
  join(CASE d.kind = "array" -> ArrayDocLines(d)
         [] d.kind = "indent" -> IndentDocLines(d)
         [] d.kind = "paths" -> PathDocLines(d)
         [] d.kind = "escape" -> EscapeDocLines(d)
         [] d.kind = "root" -> <<d.content>>
         [] d.kind = "fault" -> FaultDocLines(d)
         [] d.kind = "blank" -> BlankDocLines(d)
         [] d.kind = "object" -> ObjectDocLines(d)
         [] d.kind = "dispatch" -> DispatchDocLines(d)
         [] d.kind = "header" -> HeaderDocLines(d)
         [] d.kind = "list" -> ListDocLines(d)
         [] d.kind = "cursor" -> CursorDocLines(d),
       <<"\n">>)

\* ------------------------------------------------------------------------
\* The state machine: an encoder and a parser are constructed with their
\* options; a value is encoded, the text parsed and the result encoded again,
\* or a given document is parsed (and the result encoded)
\* ------------------------------------------------------------------------
VARIABLES encoder, parser, doc, input, text, parsed, text2, pc,
          made, history, documents, report, reports, source, buffer, chunks, promise,
          frames

vars == <<encoder, parser, doc, input, text, parsed, text2, pc,
          made, history, documents, report, reports, source, buffer, chunks, promise,
          frames>>

\* the calls made on the instances, the validator's result and the stream
calls == <<made, history>>
validator == <<documents, report, reports>>
stream == <<source, buffer, chunks, promise>>

None == Err("unset", 0)

Init ==
  /\ parsed = None
  /\ text2 = None
  /\ \/ /\ doc = ValueDoc
        /\ input \in Values
        /\ encoder \in {[DefaultEncoder EXCEPT !.delimiter = dl] : dl \in Delimiters}
        /\ parser = DefaultParser
        /\ text = None
        /\ pc = "start"
     \/ /\ doc \in ArrayDocs
        /\ parser \in {[DefaultParser EXCEPT !.strict = st] : st \in BOOLEAN}
        /\ encoder = DefaultEncoder
        /\ input = NullV
        /\ text = Ok(DocText(doc))
        /\ pc = "text"
     \/ /\ doc \in IndentDocs
        /\ parser \in {[DefaultParser EXCEPT !.strict = st, !.indentSize = n] :
                         st \in BOOLEAN, n \in 1..MaxIndent}
        /\ encoder = DefaultEncoder
        /\ input = NullV
        /\ text = Ok(DocText(doc))
        /\ pc = "text"
     \/ /\ doc \in PathDocs
        /\ parser \in {[DefaultParser EXCEPT !.strict = st, !.expandPaths = ep] :
                         st \in BOOLEAN, ep \in {"off", "safe"}}
        /\ encoder = DefaultEncoder
        /\ input = NullV
        /\ text = Ok(DocText(doc))
        /\ pc = "text"
     \/ /\ doc \in EscapeDocs
        /\ parser \in {[DefaultParser EXCEPT !.strict = st] : st \in BOOLEAN}
        /\ encoder = DefaultEncoder
        /\ input = NullV
        /\ text = Ok(DocText(doc))
        /\ pc = "text"
     \/ /\ doc \in RootDocs
        /\ parser \in {[DefaultParser EXCEPT !.strict = st] : st \in BOOLEAN}
        /\ encoder = DefaultEncoder
        /\ input = NullV
        /\ text = Ok(DocText(doc))
        /\ pc = "text"
     \/ /\ doc \in FaultDocs
        /\ parser \in {[DefaultParser EXCEPT !.strict = st] : st \in BOOLEAN}
        /\ encoder = DefaultEncoder
        /\ input = NullV
        /\ text = Ok(DocText(doc))
        /\ pc = "text"
     \/ /\ doc = NumberDoc
        /\ input \in {NumV(n[1], n[2]) : n \in NumberInputs}
        /\ encoder = DefaultEncoder
        /\ parser = DefaultParser
        /\ text = None
        /\ pc = "start"
  /\ made = [parser |-> parser, encoder |-> encoder]
  /\ history = <<>>
  /\ documents = <<>>
  /\ report = None
  /\ reports = <<>>
  /\ source = <<>>
  /\ buffer = <<>>
  /\ chunks = <<>>
  /\ promise = None
  /\ frames = <<>>

\* encoder.encode(input)
Encode ==
  /\ pc = "start"
  /\ text' = encode(encoder, input)
  /\ input' = argumentAfter(encoder, input)
  /\ pc' = "encoded"
  /\ UNCHANGED <<frames, encoder, parser, doc, parsed, text2, calls, validator, stream>>

\* parser.parse(text)
Parse ==
  /\ pc \in {"encoded", "text", "canonical"}
  /\ IsOk(text)
  /\ parsed' = parse(parser, text.v)
  /\ pc' = IF pc = "canonical" THEN "reparsed" ELSE "parsed"
  /\ UNCHANGED <<frames, encoder, parser, doc, input, text, text2, calls, validator, stream>>

\* encoder.encode(parsed)
Reencode ==
  /\ pc = "parsed"
  /\ IsOk(parsed)
  /\ text2' = encode(encoder, parsed.v)
  /\ pc' = "reencoded"
  /\ UNCHANGED <<frames, encoder, parser, doc, input, text, parsed, calls, validator, stream>>

\* canonicalNumber(input), for a number
Canonical ==
  /\ pc = "start"
  /\ doc = NumberDoc
  /\ text' = Ok(canonicalNumber(input.n))
  /\ pc' = "canonical"
  /\ UNCHANGED <<frames, encoder, parser, doc, input, parsed, text2, calls, validator, stream>>

Next == Encode \/ Parse \/ Reencode \/ Canonical

Spec == Init /\ [][Next]_vars

\* ------------------------------------------------------------------------
\* Sequences of calls on one ToonParser and one ToonEncoder
\* ------------------------------------------------------------------------
MaxCalls == 3

CallTexts ==
  {<<"a", ":", " ", "1">>,
   <<"\t", "a", ":", " ", "1">>,
   <<"k", "[", "3", "]", ":", " ", "a", ",", "b">>,
   <<"a", ".", "b", ":", " ", "1", "\n", "a", ":", " ", "2">>}

CallValues ==
  {StrV(<<"x">>),
   ObjV(<<Entry(<<"b">>, IntV(1)), Entry(<<"a">>, ObjV(<<Entry(<<"d">>, IntV(2)), Entry(<<"c">>, IntV(3))>>))>>),
   ArrV(<<ObjV(<<Entry(<<"b">>, IntV(1)), Entry(<<"a">>, IntV(2))>>), IntV(7)>>),
   ObjV(<<Entry(<<"k">>, ArrV(<<ObjV(<<Entry(<<"a">>, IntV(1)), Entry(<<"b">>, IntV(2))>>), IntV(7)>>))>>),
   ArrV(<<ObjV(<<Entry(<<>>, EmptyObj)>>)>>)}

\* one call, its argument when it returned or threw, and its outcome
Call(op, content, value, after, out) ==
  [op |-> op, content |-> content, value |-> value, after |-> after, out |-> out]

InitCalls ==
  /\ parser \in {[DefaultParser EXCEPT !.strict = st, !.expandPaths = ep] :
                   st \in BOOLEAN, ep \in {"off", "safe"}}
  /\ encoder \in {[DefaultEncoder EXCEPT !.sortKeys = sk] : sk \in BOOLEAN}
  /\ made = [parser |-> parser, encoder |-> encoder]
  /\ history = <<>>
  /\ doc = [kind |-> "calls"]
  /\ input = NullV
  /\ text = None
  /\ parsed = None
  /\ text2 = None
  /\ pc = "calls"
  /\ documents = <<>>
  /\ report = None
  /\ reports = <<>>
  /\ source = <<>>
  /\ buffer = <<>>
  /\ chunks = <<>>
  /\ promise = None
  /\ frames = <<>>

\* parser.parse(content): the options are read and never assigned
CallParse ==
  /\ Len(history) < MaxCalls
  /\ \E content \in CallTexts :
       /\ parsed' = parse(parser, content)
       /\ history' = Append(history, Call("parse", content, NullV, NullV, parsed'))
  /\ UNCHANGED <<frames, encoder, parser, doc, input, text, text2, pc, made, validator, stream>>

\* encoder.encode(value)
CallEncode ==
  /\ Len(history) < MaxCalls
  /\ \E value \in CallValues :
       /\ text' = encode(encoder, value)
       /\ input' = argumentAfter(encoder, value)
       /\ history' = Append(history, Call("encode", <<>>, value, input', text'))
  /\ UNCHANGED <<frames, encoder, parser, doc, parsed, text2, pc, made, validator, stream>>

NextCalls == CallParse \/ CallEncode

SpecCalls == InitCalls /\ [][NextCalls]_vars

\* ------------------------------------------------------------------------
\* A ToonValidator and a batch of documents
\* ------------------------------------------------------------------------
MaxBatch == 2

InitValidator ==
  /\ parser \in {[DefaultParser EXCEPT !.strict = st] : st \in BOOLEAN}
  /\ encoder = DefaultEncoder
  /\ made = [parser |-> parser, encoder |-> encoder]
  /\ history = <<>>
  /\ \E n \in 1..MaxBatch : documents \in [1..n -> ValidatorDocs]
  /\ doc = documents[1]
  /\ input = NullV
  /\ text = Ok(DocText(doc))
  /\ parsed = None
  /\ text2 = None
  /\ pc = "text"
  /\ report = None
  /\ reports = <<>>
  /\ source = <<>>
  /\ buffer = <<>>
  /\ chunks = <<>>
  /\ promise = None
  /\ frames = <<>>

\* validator.validate(text), for the first document
Validate ==
  /\ pc = "text"
  /\ report' = validate(parser, text.v)
  /\ pc' = "validated"
  /\ UNCHANGED <<frames, encoder, parser, doc, input, text, parsed, text2, calls,
                 documents, reports, stream>>

\* validator.validateBatch(documents)
ValidateBatch ==
  /\ pc = "text"
  /\ reports' = validateBatch(parser, [i \in 1..Len(documents) |-> DocText(documents[i])])
  /\ pc' = "batch"
  /\ UNCHANGED <<frames, encoder, parser, doc, input, text, parsed, text2, calls,
                 documents, report, stream>>

NextValidator == Validate \/ ValidateBatch

SpecValidator == InitValidator /\ [][NextValidator]_vars

\* ------------------------------------------------------------------------
\* parseStream over a text cut into chunks
\* ------------------------------------------------------------------------
MaxChunks == 3

StreamTexts ==
  RootTexts \cup
  {<<"n", "u", "l", "l">>, <<"\t", "x", ":", " ", "1">>,
   <<"k", "[", "3", "]", ":", " ", "a", ",", "b">>}

RECURSIVE Splits(_, _)
\* the ways of cutting t into at most n chunks, none of them empty
Splits(t, n) ==
  IF t = <<>> THEN {<<>>}
  ELSE IF n <= 1 THEN {<<t>>}
  ELSE {<<t>>} \cup
       UNION {{<<SubSeq(t, 1, i)>> \o r : r \in Splits(SubSeq(t, i + 1, Len(t)), n - 1)} :
                i \in 1..(Len(t) - 1)}

InitStream ==
  /\ parser \in {[DefaultParser EXCEPT !.strict = st] : st \in BOOLEAN}
  /\ encoder = DefaultEncoder
  /\ made = [parser |-> parser, encoder |-> encoder]
  /\ history = <<>>
  /\ doc = [kind |-> "stream"]
  /\ input = NullV
  /\ \E t \in StreamTexts :
       /\ text = Ok(t)
       /\ source \in Splits(t, MaxChunks)
  /\ parsed = None
  /\ text2 = None
  /\ pc = "open"
  /\ documents = <<>>
  /\ report = None
  /\ reports = <<>>
  /\ buffer = <<>>
  /\ chunks = <<>>
  /\ promise = None
  /\ frames = <<>>

\* _transform: the next chunk of the source is added to the buffer
Transform ==
  /\ pc = "open"
  /\ source # <<>>
  /\ buffer' = buffer \o Head(source)
  /\ source' = Tail(source)
  /\ UNCHANGED <<frames, encoder, parser, doc, input, text, parsed, text2, pc, calls, validator,
                 chunks, promise>>

\* _flush, when the source has ended: a buffer that is not blank is parsed
\* and the result pushed; a throw is the 'error' event, which rejects
Flush ==
  /\ pc = "open"
  /\ source = <<>>
  /\ IF trim(buffer) # <<>>
     THEN /\ parsed' = parse(streamParser(parser), buffer)
          /\ IF IsOk(parsed')
             THEN /\ chunks' = pushed(chunks, parsed'.v)
                  /\ pc' = "ended"
                  /\ UNCHANGED promise
             ELSE /\ promise' = parsed'
                  /\ pc' = "settled"
                  /\ UNCHANGED chunks
     ELSE /\ pc' = "ended"
          /\ UNCHANGED <<parsed, chunks, promise>>
  /\ UNCHANGED <<frames, encoder, parser, doc, input, text, text2, calls, validator, source, buffer>>

\* the 'end' event
End ==
  /\ pc = "ended"
  /\ promise' = resolved(chunks)
  /\ pc' = "settled"
  /\ UNCHANGED <<frames, encoder, parser, doc, input, text, parsed, text2, calls, validator,
                 source, buffer, chunks>>

NextStream == Transform \/ Flush \/ End

SpecStream == InitStream /\ [][NextStream]_vars

\* ------------------------------------------------------------------------
\* The parse of documents of one array header
\* ------------------------------------------------------------------------
InitDispatch ==
  /\ doc \in DispatchDocs
  /\ parser \in {[DefaultParser EXCEPT !.strict = st] : st \in BOOLEAN}
  /\ encoder = DefaultEncoder
  /\ made = [parser |-> parser, encoder |-> encoder]
  /\ history = <<>>
  /\ input = NullV
  /\ text = Ok(DocText(doc))
  /\ parsed = None
  /\ text2 = None
  /\ pc = "text"
  /\ documents = <<>>
  /\ report = None
  /\ reports = <<>>
  /\ source = <<>>
  /\ buffer = <<>>
  /\ chunks = <<>>
  /\ promise = None
  /\ frames = <<>>

NextDispatch == Parse

SpecDispatch == InitDispatch /\ [][NextDispatch]_vars

\* ------------------------------------------------------------------------
\* The parse of documents whose header has any text between its brackets
\* ------------------------------------------------------------------------
InitHeader ==
  /\ doc \in HeaderDocs
  /\ parser \in {[DefaultParser EXCEPT !.strict = st] : st \in BOOLEAN}
  /\ encoder = DefaultEncoder
  /\ made = [parser |-> parser, encoder |-> encoder]
  /\ history = <<>>
  /\ input = NullV
  /\ text = Ok(DocText(doc))
  /\ parsed = None
  /\ text2 = None
  /\ pc = "text"
  /\ documents = <<>>
  /\ report = None
  /\ reports = <<>>
  /\ source = <<>>
  /\ buffer = <<>>
  /\ chunks = <<>>
  /\ promise = None
  /\ frames = <<>>

NextHeader == Parse

SpecHeader == InitHeader /\ [][NextHeader]_vars

\* ------------------------------------------------------------------------
\* The parse of documents of one list array
\* ------------------------------------------------------------------------
InitList ==
  /\ doc \in ListDocs
  /\ parser \in {[DefaultParser EXCEPT !.strict = st] : st \in BOOLEAN}
  /\ encoder = DefaultEncoder
  /\ made = [parser |-> parser, encoder |-> encoder]
  /\ history = <<>>
  /\ input = NullV
  /\ text = Ok(DocText(doc))
  /\ parsed = None
  /\ text2 = None
  /\ pc = "text"
  /\ documents = <<>>
  /\ report = None
  /\ reports = <<>>
  /\ source = <<>>
  /\ buffer = <<>>
  /\ chunks = <<>>
  /\ promise = None
  /\ frames = <<>>

NextList == Parse

SpecList == InitList /\ [][NextList]_vars

\* ------------------------------------------------------------------------
\* The parse of the lines call by call: frames is the stack of the calls of
\* parseObject and parseArrayContent in progress, each with its cursor idx,
\* its depth, the index `from` of the line that made the call (-1 for the
\* call of determineRootForm), and what it has collected in acc.  A step is
\* one turn of the loop of the call on top, up to the call it makes, or the
\* return of the call on top with the rest of the caller's turn.
\* ------------------------------------------------------------------------
NoHeader == [key |-> <<>>, length |-> 0, delimiter |-> ",", hasFields |-> FALSE, fields |-> <<>>]

ObjectFrame(startIdx, currentDepth, from) ==
  [fn |-> "object", idx |-> startIdx, depth |-> currentDepth, from |-> from,
   header |-> NoHeader, rest |-> <<>>, key |-> <<>>, acc |-> <<>>]

\* the call of parseArrayContent on the header line startIdx: the form chosen
ArrayFrame(startIdx, currentDepth, header, valuePart) ==
  [fn |-> IF valuePart # <<>> THEN "inline"
          ELSE IF header.hasFields /\ Len(header.fields) > 0 THEN "tabular"
          ELSE "list",
   idx |-> startIdx + 1, depth |-> currentDepth, from |-> startIdx,
   header |-> header, rest |-> valuePart, key |-> <<>>, acc |-> <<>>]

\* the lines parseLines hands to determineRootForm
linesOf(content, p) == processLines(split(content, "\n"), 0, p)

ParsedLines == linesOf(text.v, parser)

Going(fs) == [frames |-> fs, pc |-> "parsing", parsed |-> None]

Thrown(e) == [frames |-> <<>>, pc |-> "thrown", parsed |-> e]

\* the frames with the one on top replaced
SetTop(fs, f) == [fs EXCEPT ![Len(fs)] = f]

\* the frame with what the turn collected and the cursor after the turn
Turned(f, acc, nextIdx) == [f EXCEPT !.acc = acc, !.idx = nextIdx]

\* the caller's turn after the call on top returned { value, nextIdx }
Resume(lines, c, value, nextIdx) ==
  IF c.fn = "object" THEN Ok(Turned(c, objSet(c.acc, c.key, value), nextIdx))
  ELSE LET item == pushItem(c.acc, fieldLoop(lines, nextIdx, c.depth,
                                             Ok(objSet(<<>>, c.key, value))))
       IN  IF IsOk(item) THEN Ok(Turned(c, item.v.value, item.v.nextIdx)) ELSE item

\* return { value, nextIdx } of the call on top
Returned(lines, fs, value, nextIdx) ==
  IF Len(fs) = 1 THEN [frames |-> <<>>, pc |-> "returned", parsed |-> Ok(value)]
  ELSE LET c == Resume(lines, fs[Len(fs) - 1], value, nextIdx)
       IN  IF IsOk(c) THEN Going(SetTop(SubSeq(fs, 1, Len(fs) - 1), c.v)) ELSE Thrown(c)

\* the turn made by `step`, a Step(acc, nextIdx) or a throw
TurnOf(fs, step) ==
  IF IsOk(step) THEN Going(SetTop(fs, Turned(fs[Len(fs)], step.v.value, step.v.nextIdx)))
  ELSE Thrown(step)

\* the call of `frame` for the entry `key` of the frame on top
CallOf(fs, key, frame) == Going(Append(SetTop(fs, [fs[Len(fs)] EXCEPT !.key = key]), frame))

\* one turn of the while loop of parseObject
objectTurn(lines, fs, f, strict) ==
  LET line == lines[f.idx + 1]
      colonIdx == findUnquotedColon(line.content)
      keyPart == trim(slice(line.content, 0, colonIdx))
      valuePart == trim(sliceFrom(line.content, colonIdx + 1))
      isHeader == includes(keyPart, "[") /\ includes(keyPart, "]")
      header == parseArrayHeader(keyPart)
      key == parseKey(keyPart)
  IN  IF line.depth > f.depth THEN Going(SetTop(fs, [f EXCEPT !.idx = f.idx + 1]))
      ELSE IF colonIdx # -1 /\ isHeader /\ IsOk(header)
      THEN CallOf(fs, header.v.key, ArrayFrame(f.idx, f.depth, header.v, valuePart))
      ELSE IF /\ colonIdx # -1 /\ ~isHeader /\ IsOk(key) /\ valuePart = <<>>
              /\ f.idx + 1 < Len(lines) /\ lines[f.idx + 2].depth > f.depth
      THEN CallOf(fs, key.v, ObjectFrame(f.idx + 1, f.depth + 1, f.idx))
      ELSE TurnOf(fs, objectStep(lines, f.idx, f.depth, strict, f.acc))

\* one turn of the while loop of parseTabularArray
tabularTurn(lines, fs, f, strict) ==
  LET rows == tabularStep(lines, f.idx, f.depth, f.header, strict, f.acc)
  IN  IF f.header.length < 0 THEN Thrown(Err("RangeError", 0))
      ELSE IF IsOk(rows) THEN Going(SetTop(fs, Turned(f, rows.v, f.idx + 1))) ELSE Thrown(rows)

\* one turn of the outer while loop of parseListArray
listTurn(lines, fs, f, strict) ==
  LET line == lines[f.idx + 1]
      itemContent == sliceFrom(line.content, 2)
      colonIdx == findUnquotedColon(itemContent)
      key == parseKey(trim(slice(itemContent, 0, colonIdx)))
  IN  IF ~(line.depth = f.depth + 1 /\ startsWith(line.content, <<"-", " ">>))
      THEN Going(SetTop(fs, [f EXCEPT !.idx = f.idx + 1]))
      ELSE IF /\ ~(includes(itemContent, "[") /\ includes(itemContent, "]"))
              /\ colonIdx # -1 /\ IsOk(key)
              /\ trim(sliceFrom(itemContent, colonIdx + 1)) = <<>>
              /\ f.idx + 1 < Len(lines) /\ lines[f.idx + 2].depth > f.depth + 1
      THEN CallOf(fs, key.v, ObjectFrame(f.idx + 1, f.depth + 2, f.idx))
      ELSE TurnOf(fs, pushItem(f.acc, listStep(lines, f.idx, f.depth, strict, itemContent)))

\* a while loop of the call f goes on: a line is left, not above the call's lines
LoopGoesOn(lines, f) ==
  /\ f.idx < Len(lines)
  /\ lines[f.idx + 1].depth >= (IF f.fn = "object" THEN f.depth ELSE f.depth + 1)

\* the end of the call on top: its length check, then its return
returnOf(lines, fs, f, strict) ==
  CASE f.fn = "object" -> Returned(lines, fs, ObjV(f.acc), f.idx)
    [] f.fn = "inline" ->
         LET r == inlineArray(parsePrimitives(splitDelimited(f.rest, f.header.delimiter)),
                              f.header, strict, f.idx)
         IN  IF IsOk(r) THEN Returned(lines, fs, r.v.value, r.v.nextIdx) ELSE Thrown(r)
    [] f.fn = "tabular" ->
         IF f.header.length < 0 THEN Thrown(Err("RangeError", 0))
         ELSE IF strict /\ Len(f.acc) # f.header.length
         THEN Thrown(Err("TabularLengthMismatch", 0))
         ELSE Returned(lines, fs, ArrV(f.acc), f.idx)
    [] f.fn = "list" ->
         IF strict /\ Len(f.acc) # f.header.length THEN Thrown(Err("ListLengthMismatch", 0))
         ELSE Returned(lines, fs, ArrV(f.acc), f.idx)

\* determineRootForm: the value at once, or the first call
rootCall(lines, strict) ==
  LET header == parseArrayHeader(lines[1].content)
      done(r) == IF IsOk(r) THEN [frames |-> <<>>, pc |-> "returned", parsed |-> r]
                 ELSE Thrown(r)
  IN  IF Len(lines) = 0 THEN done(Ok(EmptyObj))
      ELSE IF lines[1].depth = 0 /\ isArrayHeader(lines[1].content)
      THEN IF ~IsOk(header) THEN Thrown(header)
           ELSE IF header.v.key # <<>> THEN Going(<<ObjectFrame(0, 0, -1)>>)
           ELSE Going(<<ArrayFrame(0, 0, header.v,
                                   valuePartOf(lines[1].content,
                                               indexOf(lines[1].content, ":")))>>)
      ELSE IF /\ Len(lines) = 1
              /\ lines[1].depth = 0
              /\ findUnquotedColon(lines[1].content) = -1
      THEN done(parsePrimitive(lines[1].content))
      ELSE Going(<<ObjectFrame(0, 0, -1)>>)

\* a parser made, and no document handed to it yet
\* the step of the call on top: the end of its loop, or one turn of it
stepOf(lines, fs, f, strict) ==
  IF f.fn = "inline" \/ ~LoopGoesOn(lines, f) THEN returnOf(lines, fs, f, strict)
  ELSE CASE f.fn = "object" -> objectTurn(lines, fs, f, strict)
         [] f.fn = "tabular" -> tabularTurn(lines, fs, f, strict)
         [] f.fn = "list" -> listTurn(lines, fs, f, strict)

InitCursor ==
  /\ doc = [kind |-> "cursor", lines |-> <<>>]
  /\ parser \in {[DefaultParser EXCEPT !.strict = st] : st \in BOOLEAN}
  /\ encoder = DefaultEncoder
  /\ made = [parser |-> parser, encoder |-> encoder]
  /\ history = <<>>
  /\ input = NullV
  /\ text = None
  /\ parsed = None
  /\ text2 = None
  /\ pc = "idle"
  /\ documents = <<>>
  /\ report = None
  /\ reports = <<>>
  /\ source = <<>>
  /\ buffer = <<>>
  /\ chunks = <<>>
  /\ promise = None
  /\ frames = <<>>

\* the state after a step of the parse
Becomes(next) ==
  /\ frames' = next.frames
  /\ pc' = next.pc
  /\ parsed' = next.parsed
  /\ UNCHANGED <<encoder, parser, input, text2, calls, validator, stream>>

\* parseLines on the text of a document: determineRootForm on its lines
rootOfLines(lines, strict) ==
  IF IsOk(lines) THEN rootCall(lines.v, strict) ELSE Thrown(lines)

RootCall ==
  /\ pc = "idle"
  /\ \E d \in CursorDocs :
       /\ doc' = d
       /\ text' = Ok(DocText(d))
       /\ Becomes(rootOfLines(linesOf(DocText(d), parser), parser.strict))

ObjectTurn ==
  /\ pc = "parsing"
  /\ frames[Len(frames)].fn = "object"
  /\ LoopGoesOn(ParsedLines.v, frames[Len(frames)])
  /\ Becomes(objectTurn(ParsedLines.v, frames, frames[Len(frames)], parser.strict))
  /\ UNCHANGED <<doc, text>>

TabularTurn ==
  /\ pc = "parsing"
  /\ frames[Len(frames)].fn = "tabular"
  /\ LoopGoesOn(ParsedLines.v, frames[Len(frames)])
  /\ Becomes(tabularTurn(ParsedLines.v, frames, frames[Len(frames)], parser.strict))
  /\ UNCHANGED <<doc, text>>

ListTurn ==
  /\ pc = "parsing"
  /\ frames[Len(frames)].fn = "list"
  /\ LoopGoesOn(ParsedLines.v, frames[Len(frames)])
  /\ Becomes(listTurn(ParsedLines.v, frames, frames[Len(frames)], parser.strict))
  /\ UNCHANGED <<doc, text>>

Return ==
  /\ pc = "parsing"
  /\ frames[Len(frames)].fn = "inline" \/ ~LoopGoesOn(ParsedLines.v, frames[Len(frames)])
  /\ Becomes(returnOf(ParsedLines.v, frames, frames[Len(frames)], parser.strict))
  /\ UNCHANGED <<doc, text>>

NextCursor == RootCall \/ ObjectTurn \/ TabularTurn \/ ListTurn \/ Return

SpecCursor == InitCursor /\ [][NextCursor]_vars

\* ------------------------------------------------------------------------
\* parseObject called on the lines of a document at an index and a depth
\* ------------------------------------------------------------------------
InitObject ==
  /\ doc \in ObjectDocs
  /\ parser = DefaultParser
  /\ encoder = DefaultEncoder
  /\ made = [parser |-> parser, encoder |-> encoder]
  /\ history = <<>>
  /\ input = NullV
  /\ text = Ok(DocText(doc))
  /\ parsed = None
  /\ text2 = None
  /\ pc = "text"
  /\ documents = <<>>
  /\ report = None
  /\ reports = <<>>
  /\ source = <<>>
  /\ buffer = <<>>
  /\ chunks = <<>>
  /\ promise = None
  /\ frames = <<>>

\* parseObject(lines, start, depth, strict) on the lines parseLines makes
ParseObject ==
  /\ pc = "text"
  /\ parsed' = parseObject(processLines(split(text.v, "\n"), 0, parser).v,
                           doc.start, doc.depth, parser.strict)
  /\ pc' = "object"
  /\ UNCHANGED <<frames, encoder, parser, doc, input, text, text2, calls, validator, stream>>

NextObject == ParseObject

SpecObject == InitObject /\ [][NextObject]_vars

\* ------------------------------------------------------------------------
\* The parse of documents with blank lines
\* ------------------------------------------------------------------------
InitBlank ==
  /\ doc \in BlankDocs
  /\ parser \in {[DefaultParser EXCEPT !.strict = st] : st \in BOOLEAN}
  /\ encoder = DefaultEncoder
  /\ made = [parser |-> parser, encoder |-> encoder]
  /\ history = <<>>
  /\ input = NullV
  /\ text = Ok(DocText(doc))
  /\ parsed = None
  /\ text2 = None
  /\ pc = "text"
  /\ documents = <<>>
  /\ report = None
  /\ reports = <<>>
  /\ source = <<>>
  /\ buffer = <<>>
  /\ chunks = <<>>
  /\ promise = None
  /\ frames = <<>>

NextBlank == Parse

SpecBlank == InitBlank /\ [][NextBlank]_vars

\* ------------------------------------------------------------------------
\* The string utilities on their own: strings and tokens of a few characters
\* ------------------------------------------------------------------------
MaxLen == 3

Alphabet == {"\\", "\"", "n", "\n", "\t", ",", "|", " ", "-", "0", "1"}

SomeTokens ==
  {<<"t", "r", "u", "e">>,
   <<"f", "a", "l", "s", "e">>,
   <<"n", "u", "l", "l">>,
   <<"0", "0", "7">>,
   <<"0", "0">>,
   <<"0">>,
   <<"-", "0">>,
   <<"1", "e", "5">>,
   <<"1", "E", "+", "2">>,
   <<"-", "1", ".", "5">>,
   <<"1", ".">>,
   <<"1", ".", "5", ".", "2">>,
   <<".", "5">>,
   <<"+", "1">>,
   <<"1", "e", "4", "0", "0">>,
   <<"1", "e">>,
   <<"-", " ", "1">>,
   <<" ", "4", "2", " ">>,
   <<"\"", "4", "2", "\"">>,
   <<"\"", "t", "r", "u", "e", "\"">>,
   <<"\"", "n", "u", "l", "l", "\"">>,
   <<" ", "\"", "a", "\"", " ">>,
   <<"\"", "a", "\\", "n", "b", "\"">>,
   <<"\"", "a", "\\", "x", "b", "\"">>,
   <<"\"", "a">>,
   <<"a", "\"">>,
   <<"\"", "a", "\"", "b", "\"">>,
   <<"T", "r", "u", "e">>,
   <<"N", "U", "L", "L">>,
   <<"a", ":", "b">>,
   <<"[", "1", "]">>,
   <<"h", "e", "l", "l", "o", " ", "w", "o", "r", "l", "d">>,
   <<"\r">>,
   <<"a", "\r", "b">>,
   <<"-">>}

StringInputs == UNION {[1..n -> Alphabet] : n \in 0..MaxLen} \cup SomeTokens

InitStrings ==
  /\ input \in {StrV(str) : str \in StringInputs}
  /\ parser = DefaultParser
  /\ encoder = DefaultEncoder
  /\ made = [parser |-> parser, encoder |-> encoder]
  /\ history = <<>>
  /\ doc = [kind |-> "string"]
  /\ text = None
  /\ parsed = None
  /\ text2 = None
  /\ pc = "start"
  /\ documents = <<>>
  /\ report = None
  /\ reports = <<>>
  /\ source = <<>>
  /\ buffer = <<>>
  /\ chunks = <<>>
  /\ promise = None
  /\ frames = <<>>

\* quoteString(input, delimiter)
Quote ==
  /\ pc = "start"
  /\ \E delimiter \in Delimiters : text' = Ok(quoteString(input.s, delimiter))
  /\ pc' = "quoted"
  /\ UNCHANGED <<frames, encoder, parser, doc, input, parsed, text2, calls, validator, stream>>

\* parsePrimitive of the quoted text
Requote ==
  /\ pc = "quoted"
  /\ parsed' = parsePrimitive(text.v)
  /\ pc' = "primitive"
  /\ UNCHANGED <<frames, encoder, parser, doc, input, text, text2, calls, validator, stream>>

\* escapeString(input)
Escape ==
  /\ pc = "start"
  /\ text' = Ok(escapeString(input.s))
  /\ pc' = "escaped"
  /\ UNCHANGED <<frames, encoder, parser, doc, input, parsed, text2, calls, validator, stream>>

\* unescapeString of the escaped text, with strict or without
Unescape ==
  /\ pc = "escaped"
  /\ \E strict \in BOOLEAN : parsed' = stringOf(unescapeString(text.v, strict))
  /\ pc' = "unescaped"
  /\ UNCHANGED <<frames, encoder, parser, doc, input, text, text2, calls, validator, stream>>

\* parsePrimitive(input), the input taken as a token
Classify ==
  /\ pc = "start"
  /\ parsed' = parsePrimitive(input.s)
  /\ pc' = "classified"
  /\ UNCHANGED <<frames, encoder, parser, doc, input, text, text2, calls, validator, stream>>

NextStrings == Quote \/ Requote \/ Escape \/ Unescape \/ Classify

SpecStrings == InitStrings /\ [][NextStrings]_vars

\* ------------------------------------------------------------------------
\* A ToonLineParser over a text cut into chunks
\* ------------------------------------------------------------------------
LineTexts ==
  {<<"a", ":", " ", "1", "\n", "\n", "b", ":", " ", "2">>,
   <<"a", ":", " ", "1", "\n", "\n", "\n", "b", ":", " ", "2">>,
   <<"a", ":", " ", "1", "\n", "\n", "\n", "\n", "b", ":", " ", "2">>,
   <<"\n", "\n", "a", ":", " ", "1", "\n", "\n">>,
   <<"a", ":", " ", "1", "\n", "b", ":", " ", "2", "\n", "\n", "c", ":", " ", "3">>,
   <<"n", "u", "l", "l", "\n", "\n", "a", ":", " ", "1">>,
   <<"a", ":", " ", "1", "\n", "\n", "n", "u", "l", "l">>,
   <<"a", ":", " ", "1", "\n", "\n", " ", "\n", "\n", "h", "i">>,
   <<"a", ":", " ", "1">>,
   <<>>,
   <<"\t", "a", ":", " ", "1", "\n", "\n", "b", ":", " ", "2">>,
   <<"a", ":", " ", "1", "\n", "\n", "[", "2", "]", ":", " ", "x", ",", "y", "\n", "\n", "7">>}

InitLines ==
  /\ parser \in {[DefaultParser EXCEPT !.strict = st] : st \in BOOLEAN}
  /\ encoder = DefaultEncoder
  /\ made = [parser |-> parser, encoder |-> encoder]
  /\ history = <<>>
  /\ doc = [kind |-> "lines"]
  /\ input = NullV
  /\ \E t \in LineTexts :
       /\ text = Ok(t)
       /\ source \in Splits(t, MaxChunks)
  /\ parsed = None
  /\ text2 = None
  /\ pc = "open"
  /\ documents = <<>>
  /\ report = None
  /\ reports = <<>>
  /\ buffer = <<>>
  /\ chunks = <<>>
  /\ promise = None
  /\ frames = <<>>

\* pc after a handler: the stream is destroyed by an error, its readable side
\* is over after null was pushed, and it ends after _flush
pcAfter(r, last) ==
  IF r.err # "none" THEN "errored"
  ELSE IF last THEN "ended"
  ELSE IF r.eof THEN "eof" ELSE "open"

\* ToonLineParser._transform for the next chunk of the source
LineTransform ==
  /\ pc \in {"open", "eof"}
  /\ source # <<>>
  /\ LET objects == splitBlocks(buffer \o Head(source))
         r == emitObjects(streamParser(parser), Readable(chunks, pc = "eof", "none"),
                          allButLast(objects))
     IN  /\ buffer' = lastOf(objects)
         /\ chunks' = r.data
         /\ pc' = pcAfter(r, FALSE)
  /\ source' = Tail(source)
  /\ UNCHANGED <<frames, encoder, parser, doc, input, text, parsed, text2, calls, validator, promise>>

\* ToonLineParser._flush, when the source has ended
LineFlush ==
  /\ pc \in {"open", "eof"}
  /\ source = <<>>
  /\ LET r == emitObjects(streamParser(parser), Readable(chunks, pc = "eof", "none"),
                          <<buffer>>)
     IN  /\ chunks' = r.data
         /\ pc' = pcAfter(r, TRUE)
  /\ UNCHANGED <<frames, encoder, parser, doc, input, text, parsed, text2, calls, validator,
                 source, buffer, promise>>

NextLines == LineTransform \/ LineFlush

SpecLines == InitLines /\ [][NextLines]_vars

\* ========================================================================
\* Properties
\* ========================================================================
RECURSIVE DeepEqual(_, _)
\* expect(a).toEqual(b): objects compare as maps, whatever the key order
DeepEqual(a, b) ==
  /\ a.t = b.t
  /\ CASE a.t = "arr" ->
            /\ Len(a.items) = Len(b.items)
            /\ \A i \in 1..Len(a.items) : DeepEqual(a.items[i], b.items[i])
       [] a.t = "obj" ->
            /\ Len(a.entries) = Len(b.entries)
            /\ \A i \in 1..Len(a.entries) :
                 /\ objHas(b.entries, a.entries[i].k)
                 /\ DeepEqual(a.entries[i].v, objGet(b.entries, a.entries[i].k))
       [] OTHER -> a = b

Defaults == doc = ValueDoc /\ encoder = DefaultEncoder /\ parser = DefaultParser

LengthErrors == {"InlineLengthMismatch", "TabularLengthMismatch", "ListLengthMismatch"}

\* C1: with default options, encode(v) succeeds for every value v, the strict
\* parse of its text succeeds, and the value parsed deep-equals v.
C1_RoundTrip ==
  Defaults =>
    /\ pc = "encoded" => IsOk(text)
    /\ pc = "parsed" => IsOk(parsed) /\ DeepEqual(parsed.v, input)

\* C2: with default options, the strict parse of encode(v) succeeds and
\* encoding the value parsed gives the text of encode(v) again.
C2_Idempotent ==
  Defaults =>
    /\ pc = "parsed" => IsOk(parsed)
    /\ pc = "reencoded" => IsOk(text2) /\ text2.v = text.v

\* The number of elements a document of ArrayDocs holds in the array whose
\* header declares doc.declared (an empty inline value list leaves one empty
\* token when the header is a list item, and a list of no items otherwise).
Actual(d) == IF d.form = "nested" /\ d.count = 0 THEN 1 ELSE d.count

\* the array parsed for the header that declares doc.declared
DeclaredArray(d, v) ==
  LET outer == IF d.keyed THEN objGet(v.entries, <<"i", "t", "e", "m", "s">>) ELSE v
  IN  IF d.form = "nested" THEN outer.items[1] ELSE outer

\* C3: a strict parse fails with a length-mismatch error whenever the number
\* of elements of an array differs from the length its header declares,
\* whatever the form of the array (rows have the declared width here).
C3_StrictLength ==
  (/\ pc = "parsed"
   /\ doc.kind = "array"
   /\ parser.strict
   /\ doc.form = "tabular" => doc.width = Len(doc.fields)
   /\ doc.form = "nested" => doc.count > 0
   /\ Actual(doc) # doc.declared)
    => parsed.err \in LengthErrors

\* C4: a non-strict parse never fails on a declared length or a row width;
\* the array returned has exactly as many elements as the document holds.
C4_NonStrictLength ==
  (pc = "parsed" /\ doc.kind = "array" /\ ~parser.strict) =>
    /\ IsOk(parsed)
    /\ DeclaredArray(doc, parsed.v).t = "arr"
    /\ Len(DeclaredArray(doc, parsed.v).items) = Actual(doc)

C4_Witness ==
  /\ pc = "parsed" /\ doc.kind = "array" /\ ~parser.strict
  /\ doc.form = "tabular" /\ doc.count > doc.declared /\ doc.width # Len(doc.fields)
  /\ IsOk(parsed) /\ Len(DeclaredArray(doc, parsed.v).items) = doc.count

\* C5: in strict mode a tabular row whose number of values differs from the
\* number of declared fields fails with a row-width error; when the parse
\* succeeds every row is an object whose keys are the declared fields, in
\* declared order.
C5_RowWidth ==
  (pc = "parsed" /\ doc.kind = "array" /\ doc.form = "tabular" /\ parser.strict) =>
    /\ (doc.count > 0 /\ doc.width # Len(doc.fields)) => parsed.err = "RowWidthMismatch"
    /\ IsOk(parsed) =>
         \A i \in 1..Len(DeclaredArray(doc, parsed.v).items) :
           objKeys(DeclaredArray(doc, parsed.v).items[i].entries) = doc.fields

IsTabularInput(v) ==
  /\ v.t = "arr"
  /\ Len(v.items) > 0
  /\ \A i \in 1..Len(v.items) :
       /\ v.items[i].t = "obj"
       /\ Len(v.items[i].entries) > 0
       /\ {v.items[i].entries[j].k : j \in 1..Len(v.items[i].entries)}
            = {v.items[1].entries[j].k : j \in 1..Len(v.items[1].entries)}
       /\ \A j \in 1..Len(v.items[i].entries) : isPrimitive(v.items[i].entries[j].v)

\* the text the claim states for tabular array `a` under key `k` (<<>>: none)
TabularText(k, a, dl) ==
  LET fs == objKeys(a.items[1].entries)
      head == (IF k = <<>> THEN <<>> ELSE encodeKey(k, dl)) \o <<"[">> \o IntToDigits(Len(a.items))
                \o (IF dl = "," THEN <<>> ELSE <<dl>>) \o <<"]", "{">>
                \o join([j \in 1..Len(fs) |-> encodeKey(fs[j], dl)], <<dl>>) \o <<"}", ":">>
      row(o) == <<" ", " ">> \o
                join([j \in 1..Len(fs) |-> encodePrimitiveValue(objGet(o.entries, fs[j]), dl)], <<dl>>)
  IN  join(<<head>> \o [i \in 1..Len(a.items) |-> row(a.items[i])], <<"\n">>)

\* C6: an array of objects with one key set and primitive values, at the root
\* or under a key, is encoded as a header line and one row per element, and
\* the strict parse of that text gives the array of objects back.
C6_Tabular ==
  (/\ doc = ValueDoc
   /\ parser = DefaultParser
   /\ \/ IsTabularInput(input)
      \/ input.t = "obj" /\ Len(input.entries) = 1 /\ IsTabularInput(input.entries[1].v))
    =>
    /\ pc = "encoded" =>
         /\ IsOk(text)
         /\ text.v = IF input.t = "arr" THEN TabularText(<<>>, input, encoder.delimiter)
                     ELSE TabularText(input.entries[1].k, input.entries[1].v, encoder.delimiter)
    /\ pc = "parsed" => IsOk(parsed) /\ DeepEqual(parsed.v, input)

\* a step of a path into a value: an array index i > 0, or an object key k
AtIndex(i) == [i |-> i, k |-> <<>>]
AtKey(k) == [i |-> 0, k |-> k]

RECURSIVE ValueAt(_, _)
\* the value at `path` in v, or a value of type "missing"
ValueAt(v, path) ==
  IF path = <<>> THEN v
  ELSE LET st == Head(path)
       IN  IF st.i > 0 /\ v.t = "arr" /\ st.i <= Len(v.items)
           THEN ValueAt(v.items[st.i], Tail(path))
           ELSE IF st.i = 0 /\ v.t = "obj" /\ objHas(v.entries, st.k)
           THEN ValueAt(objGet(v.entries, st.k), Tail(path))
           ELSE [NullV EXCEPT !.t = "missing"]

\* the string r at each position a string value can take: root scalar, object
\* value, inline-array element (root and keyed), tabular cell, list item
Placements(r) ==
  {[v |-> StrV(r), path |-> <<>>],
   [v |-> ObjV(<<Entry(<<"n">>, StrV(r))>>), path |-> <<AtKey(<<"n">>)>>],
   [v |-> ArrV(<<StrV(r), IntV(7)>>), path |-> <<AtIndex(1)>>],
   [v |-> ObjV(<<Entry(<<"i", "d">>, ArrV(<<StrV(r)>>))>>),
    path |-> <<AtKey(<<"i", "d">>), AtIndex(1)>>],
   [v |-> ArrV(<<ObjV(<<Entry(<<"i", "d">>, StrV(r)), Entry(<<"n">>, IntV(7))>>),
                 ObjV(<<Entry(<<"n">>, StrV(r)), Entry(<<"i", "d">>, IntV(7))>>)>>),
    path |-> <<AtIndex(1), AtKey(<<"i", "d">>)>>],
   [v |-> ArrV(<<StrV(r), ObjV(<<Entry(<<"n">>, IntV(7))>>)>>), path |-> <<AtIndex(1)>>]}

\* r occurs in t, and each occurrence stands between two double quotes
QuotedIn(t, r) ==
  LET occ == {i \in 1..(Len(t) - Len(r) + 1) : SubSeq(t, i, i + Len(r) - 1) = r}
  IN  /\ occ # {}
      /\ \A i \in occ : /\ i > 1 /\ t[i - 1] = "\""
                        /\ i + Len(r) <= Len(t) /\ t[i + Len(r)] = "\""

\* C7: a string equal to true, false or null is encoded inside double quotes
\* at every position of a string value, whatever the delimiter, and the strict
\* parse of the text has that string, not a boolean or null, at the position.
C7_ReservedQuoted ==
  \A r \in Reserved : \A f \in Placements(r) :
    (doc = ValueDoc /\ input = f.v) =>
      /\ pc \in {"encoded", "parsed"} => IsOk(text) /\ QuotedIn(text.v, r)
      /\ pc = "parsed" => IsOk(parsed) /\ ValueAt(parsed.v, f.path) = StrV(r)

C7_Witness ==
  /\ pc = "parsed" /\ doc = ValueDoc /\ encoder.delimiter = "|" /\ IsOk(parsed)
  /\ input = ArrV(<<ObjV(<<Entry(<<"i", "d">>, StrV(<<"n", "u", "l", "l">>)),
                           Entry(<<"n">>, IntV(7))>>),
                    ObjV(<<Entry(<<"n">>, StrV(<<"n", "u", "l", "l">>)),
                           Entry(<<"i", "d">>, IntV(7))>>)>>)
  /\ parsed.v.items[1].entries[1].v = StrV(<<"n", "u", "l", "l">>)

HasTab(lead) == \E i \in 1..Len(lead) : lead[i] = "\t"

\* the spaces before the first character of the line that is not a space
LeadingSpaces(lead) ==
  IF \A i \in 1..Len(lead) : lead[i] = " " THEN Len(lead)
  ELSE (CHOOSE i \in 1..Len(lead) : lead[i] # " " /\ \A j \in 1..(i - 1) : lead[j] = " ") - 1

IndentErrors == {"TabsInIndentation", "IndentationMultiple"}

\* C8: in strict mode a line whose indentation holds a tab, or whose leading
\* spaces are not a multiple of indentSize, makes parse fail with an
\* indentation error.
C8_StrictIndent ==
  (/\ pc = "parsed" /\ doc.kind = "indent" /\ parser.strict
   /\ HasTab(doc.lead) \/ LeadingSpaces(doc.lead) % parser.indentSize # 0)
    => parsed.err \in IndentErrors

C8_Witness ==
  /\ pc = "parsed" /\ doc.kind = "indent" /\ parser.strict /\ parser.indentSize = 2
  /\ doc.pos = "child" /\ doc.lead = <<" ", " ", " ">>
  /\ parsed.err = "IndentationMultiple" /\ parsed.line = 2

RECURSIVE LeadWidth(_, _)
\* the width of an indentation: a space is 1, a tab is indentSize
LeadWidth(lead, indentSize) ==
  IF lead = <<>> THEN 0
  ELSE (IF Head(lead) = "\t" THEN indentSize ELSE 1) + LeadWidth(Tail(lead), indentSize)

KeyValue == ObjV(<<Entry(<<"k", "e", "y">>, StrV(<<"v", "a", "l", "u", "e">>))>>)

\* C9: in non-strict mode indentation never raises, and a line indented by
\* tabs or by a non-multiple is the line of depth floor(width / indentSize):
\* under "obj:", the entry "key: value" at depth 1 belongs to obj, at depth 0
\* to the root.
C9_LenientIndent ==
  (pc = "parsed" /\ doc.kind = "indent" /\ ~parser.strict) =>
    /\ IsOk(parsed)
    /\ (doc.pos = "child" /\ LeadWidth(doc.lead, parser.indentSize) \div parser.indentSize = 1)
         => parsed.v = ObjV(<<Entry(<<"o", "b", "j">>, KeyValue)>>)
    /\ (doc.pos = "child" /\ LeadWidth(doc.lead, parser.indentSize) \div parser.indentSize = 0)
         => parsed.v = ObjV(<<Entry(<<"o", "b", "j">>, EmptyObj), Entry(<<"k", "e", "y">>, StrV(<<"v", "a", "l", "u", "e">>))>>)
    /\ (doc.pos = "first" /\ LeadWidth(doc.lead, parser.indentSize) \div parser.indentSize = 0)
         => parsed.v = ObjV(<<Entry(<<"n", "a", "m", "e">>, StrV(<<"v", "a", "l", "u", "e">>))>>)

\* the key of an entry of PathDocs, the path its value ends up at once the
\* dotted keys are expanded, and the value
PathKey(e) ==
  CASE e \in {"prim", "arr", "obj", "objx"} -> <<"a">>
    [] e \in {"dot", "dotobj"} -> <<"a", ".", "b">>
    [] e = "dot3" -> <<"a", ".", "b", ".", "c">>
    [] e = "other" -> <<"b">>

PathOf(e) ==
  CASE e \in {"prim", "arr"} -> <<"a">>
    [] e \in {"dot", "obj"} -> <<"a", "b">>
    [] e = "objx" -> <<"a", "x">>
    [] e \in {"dot3", "dotobj"} -> <<"a", "b", "c">>
    [] e = "other" -> <<"b">>

LeafOf(e) ==
  CASE e = "prim" -> IntV(1)
    [] e = "dot" -> IntV(2)
    [] e = "dot3" -> IntV(3)
    [] e = "arr" -> ArrV(<<IntV(5)>>)
    [] e \in {"obj", "objx", "dotobj"} -> IntV(4)
    [] e = "other" -> IntV(6)

IsPrefix(a, b) == Len(a) <= Len(b) /\ SubSeq(b, 1, Len(a)) = a

\* two entries with different keys, one at least dotted, where one writes a
\* value at a path the other one needs as an object or writes too
Conflicting(d) ==
  /\ PathKey(d.first) # PathKey(d.second)
  /\ includes(PathKey(d.first), ".") \/ includes(PathKey(d.second), ".")
  /\ IsPrefix(PathOf(d.first), PathOf(d.second)) \/ IsPrefix(PathOf(d.second), PathOf(d.first))

\* C10: with expandPaths = 'safe', a strict parse fails with an expansion
\* conflict for conflicting dotted and plain keys in either order; a
\* non-strict parse raises nothing and holds the value written last.
C10_ExpansionConflict ==
  (pc = "parsed" /\ doc.kind = "paths" /\ parser.expandPaths = "safe" /\ Conflicting(doc)) =>
    /\ parser.strict => parsed.err = "ExpansionConflict"
    /\ ~parser.strict =>
         /\ IsOk(parsed)
         /\ ValueAt(parsed.v, [i \in 1..Len(PathOf(doc.second)) |-> AtKey(<<PathOf(doc.second)[i]>>)])
              = LeafOf(doc.second)

\* the five sequences unescapeString recognises, with what each stands for
Recognized ==
  [c \in {"\\", "\"", "n", "r", "t"} |->
     CASE c = "\\" -> "\\" [] c = "\"" -> "\"" [] c = "n" -> "\n"
       [] c = "r" -> "\r" [] c = "t" -> "\t"]

\* the string a document of EscapeDocs holds once decoded: the sequence
\* replaced when it is recognised, kept with its backslash otherwise
Decoded(d) ==
  IF d.ch \in DOMAIN Recognized THEN <<"a", Recognized[d.ch], "b">>
  ELSE <<"a", "\\", d.ch, "b">>

\* the value of a document of EscapeDocs whose string decodes to str
EscapeValue(d, str) ==
  CASE d.pos = "root"  -> StrV(str)
    [] d.pos = "value" -> ObjV(<<Entry(<<"k">>, StrV(str))>>)
    [] d.pos = "key"   -> ObjV(<<Entry(str, StrV(<<"v">>))>>)

\* C11: a quoted string or key decodes its five escape sequences; a backslash
\* before any other character is an error in strict mode only, and a parser
\* with strict = false keeps the backslash and the character as they stand
C11_Escapes ==
  (pc = "parsed" /\ doc.kind = "escape") =>
    IF doc.ch \in DOMAIN Recognized \/ ~parser.strict
    THEN parsed = Ok(EscapeValue(doc, Decoded(doc)))
    ELSE ~IsOk(parsed) /\ parsed.err = "InvalidEscape"

\* /^-?\d+(\.\d+)?$/ with no zero ending the fraction: a plain decimal
\* without exponent marker, superfluous zeros or final point
PlainDecimal(str) ==
  /\ NUMBER_REGEX(str)
  /\ ~includes(str, "e") /\ ~includes(str, "E")
  /\ includes(str, ".") => str[Len(str)] # "0"

\* C12: canonicalNumber(n) is 'null' for NaN and the infinities and '0' for
\* -0; for every finite n it is a plain decimal without exponent marker,
\* superfluous trailing zeros or final point, and parsing it gives n again
C12_Canonical ==
  (doc = NumberDoc /\ pc \in {"canonical", "reparsed"}) =>
    IF ~NumberIsFinite(input.n) THEN text = Ok(<<"n", "u", "l", "l">>)
    ELSE IF input.n = NegZero THEN text = Ok(<<"0">>)
    ELSE /\ IsOk(text)
         /\ PlainDecimal(text.v)
         /\ pc = "reparsed" => parsed = Ok(input)

\* the lines of a text that are not blank
NonBlank(content) == SelectSeq(split(content, "\n"), LAMBDA l : trim(l) # <<>>)

\* a key-value line has a colon outside quotes; an array header line has
\* a bracket pair
IsScalarLine(l) == findUnquotedColon(trim(l)) = -1 /\ ~isArrayHeader(trim(l))

\* the root form the lines nb of a document select
RootForm(nb) ==
  IF nb = <<>> THEN "empty"
  ELSE IF Len(nb) = 1 /\ IsScalarLine(nb[1]) THEN "scalar"
  ELSE "object"

\* the value parse returns agrees with the root form of the lines nb
RootAgrees(nb, value) ==
  CASE RootForm(nb) = "empty"  -> value = EmptyObj
    [] RootForm(nb) = "scalar" -> Ok(value) = parsePrimitive(nb[1])
    [] RootForm(nb) = "object" -> value.t = "obj"

\* C13: a document without non-blank lines parses to the empty object, a
\* document of one line that is neither a key-value line nor an array
\* header to that line's scalar, and every other document to an object
C13_RootForm ==
  (pc \in {"parsed", "reparsed"} /\ IsOk(parsed)) => RootAgrees(NonBlank(text.v), parsed.v)

\* the representation the rules give to the elements of an array
ArrayForm(items) ==
  IF items = <<>> THEN "empty"
  ELSE IF \A i \in 1..Len(items) : isPrimitive(items[i]) THEN "inline"
  ELSE IF \A i \in 1..Len(items) :
            /\ items[i].t = "obj"
            /\ {items[i].entries[j].k : j \in 1..Len(items[i].entries)}
                 = {items[1].entries[j].k : j \in 1..Len(items[1].entries)}
            /\ \A j \in 1..Len(items[i].entries) : isPrimitive(items[i].entries[j].v)
  THEN "tabular"
  ELSE "list"

\* key[N] with the mark of the delimiter dl, for an array of n elements
HeadText(k, n, dl) ==
  (IF k = <<>> THEN <<>> ELSE encodeKey(k, dl)) \o <<"[">> \o IntToDigits(n)
    \o (IF dl = "," THEN <<>> ELSE <<dl>>) \o <<"]">>

\* key[N]: v1,...,vN
InlineText(k, items, dl) ==
  HeadText(k, Len(items), dl) \o <<":", " ">>
    \o join([i \in 1..Len(items) |-> encodePrimitiveValue(items[i], dl)], <<dl>>)

\* lines are a bare header, then one "- " item per element one level deeper
\* and nothing above that level
IsListText(k, items, dl, size, lines) ==
  /\ lines # <<>>
  /\ lines[1] = HeadText(k, Len(items), dl) \o <<":">>
  /\ \A i \in 2..Len(lines) : startsWith(lines[i], indent(1, size))
  /\ Cardinality({i \in 2..Len(lines) : startsWith(lines[i], indent(1, size) \o <<"-", " ">>)})
       = Len(items)

\* the text t is the array `items` under key k (<<>>: at the root) in the
\* representation the rules give it
ArrayTextAgrees(k, items, o, t) ==
  CASE ArrayForm(items) = "empty"   -> t = HeadText(k, 0, o.delimiter) \o <<":">>
    [] ArrayForm(items) = "inline"  -> t = InlineText(k, items, o.delimiter)
    [] ArrayForm(items) = "tabular" -> t = TabularText(k, ArrV(items), o.delimiter)
    [] ArrayForm(items) = "list"    ->
         IsListText(k, items, o.delimiter, o.indentSize, split(t, "\n"))

\* C14: an array is emitted inline when all its elements are primitives,
\* else as a table when they are objects of one key set with primitive
\* values (fields in the first object's order), else as a list with one
\* "- " item per element; an empty array is the bare header key[0]:
C14_ArrayForm ==
  (doc = ValueDoc /\ pc = "encoded") =>
    /\ input.t = "arr" =>
         IsOk(text) /\ ArrayTextAgrees(<<>>, input.items, encoder, text.v)
    /\ (input.t = "obj" /\ Len(input.entries) = 1 /\ input.entries[1].v.t = "arr") =>
         /\ IsOk(text)
         /\ ArrayTextAgrees(input.entries[1].k, input.entries[1].v.items, encoder, text.v)

\* the conditions under which a key or a string value is to be quoted
MustQuote(str, dl) ==
  \/ str = <<>>
  \/ str[1] \in WhiteSpace \/ str[Len(str)] \in WhiteSpace
  \/ str \in Reserved \cup {<<"-">>}
  \/ NUMBER_REGEX(str)
  \/ str[1] = "-"
  \/ \E i \in 1..Len(str) :
       str[i] \in {":", "\"", "\\", "[", "]", "{", "}", "\n", "\r", "\t", dl}

\* str inside double quotes, escaped
Quoted(str) == <<"\"">> \o escapeString(str) \o <<"\"">>

\* C15: a string value and an object key are emitted inside double quotes
\* whenever they are empty, have leading or trailing whitespace, are true,
\* false, null or "-", are number-shaped, begin with "-", or contain one of
\* : " \ [ ] { } newline, carriage return, tab or the active delimiter
C15_Quoting ==
  (doc = ValueDoc /\ pc = "encoded") =>
    /\ (input.t = "str" /\ MustQuote(input.s, encoder.delimiter)) =>
         text = Ok(Quoted(input.s))
    /\ (input.t = "obj" /\ Len(input.entries) = 1 /\ input.entries[1].v.t = "str"
          /\ MustQuote(input.entries[1].v.s, encoder.delimiter)) =>
         IsOk(text) /\ endsWith(text.v, <<":", " ">> \o Quoted(input.entries[1].v.s))
    /\ (input.t = "obj" /\ Len(input.entries) = 1 /\ isPrimitive(input.entries[1].v)
          /\ MustQuote(input.entries[1].k, encoder.delimiter)) =>
         IsOk(text) /\ startsWith(text.v, Quoted(input.entries[1].k) \o <<":">>)

\* the 1-based line of the malformed line in the text of a document of
\* FaultDocs, blank lines counted: it is the last line of the text
FaultLine(d) == Len(FaultDocLines(d))

\* C16: the line number a strict parse error names is the 1-based position
\* of the offending line in the input text, blank lines counted, for an
\* indentation error as for a missing colon
C16_ErrorLine ==
  (doc.kind = "fault" /\ pc = "parsed" /\ parser.strict /\ ~IsOk(parsed) /\ parsed.line # 0) =>
    parsed.line = FaultLine(doc)

\* ------------------------------------------------------------------------
\* C17: in any sequence of calls on one parser and one encoder, calls that
\* throw included, the instances keep their construction-time options, each
\* outcome is the outcome of the same call on a fresh instance built with
\* those options, and the value passed to encode is left as it was.
\* ------------------------------------------------------------------------
FreshOutcome(h) ==
  IF h.op = "parse" THEN parse(made.parser, h.content) ELSE encode(made.encoder, h.value)

RECURSIVE Sorted(_)
RECURSIVE SortedEach(_)
\* the value with the keys of every object that is not a row of a tabular
\* array in alphabetical order
Sorted(value) ==
  CASE value.t = "obj" ->
         LET es == sortEntries(value.entries)
         IN  ObjV([i \in 1..Len(es) |-> Entry(es[i].k, Sorted(es[i].v))])
    [] value.t = "arr" ->
         IF checkTabular(value.items).tabular THEN value ELSE ArrV(SortedEach(value.items))
    [] OTHER -> value

SortedEach(items) ==
  IF items = <<>> THEN <<>> ELSE <<Sorted(Head(items))>> \o SortedEach(Tail(items))

KeyOrder(h) == IF made.encoder.sortKeys THEN Sorted(h.value) ELSE h.value

C18_SortKeys ==
  \A i \in 1..Len(history) :
    (history[i].op = "encode" /\ IsOk(history[i].out))
      => parse(DefaultParser, history[i].out.v) = Ok(KeyOrder(history[i]))

\* ------------------------------------------------------------------------
\* C19: validate returns valid, no error and the parsed value exactly when
\* the parse succeeds, and otherwise one error and no value, the error
\* giving the 1-based line of the malformed line, the text of that line and
\* the code of the message; validateBatch returns the result of validate
\* for each document, in order.
\* ------------------------------------------------------------------------
CodeOf(kind) ==
  CASE kind = "TabsInIndentation" -> "TAB_IN_INDENTATION"
    [] kind = "IndentationMultiple" -> "INVALID_INDENTATION"
    [] kind = "InlineLengthMismatch" -> "ARRAY_LENGTH_MISMATCH"
    [] kind = "InvalidEscape" -> "INVALID_ESCAPE"
    [] kind = "MissingColon" -> "PARSE_ERROR"

Reported(d, r, rep) ==
  IF IsOk(r)
  THEN rep = [valid |-> TRUE, errors |-> <<>>, hasValue |-> TRUE, value |-> r.v]
  ELSE /\ ~rep.valid
       /\ ~rep.hasValue
       /\ Len(rep.errors) = 1
       /\ rep.errors[1].code = CodeOf(r.err)
       /\ rep.errors[1].line = FaultLine(d)
       /\ rep.errors[1].context = FaultDocLines(d)[FaultLine(d)]

C19_Validate ==
  /\ pc = "validated" => Reported(doc, parse(parser, DocText(doc)), report)
  /\ pc = "batch" =>
       /\ Len(reports) = Len(documents)
       /\ \A i \in 1..Len(documents) :
            Reported(documents[i], parse(parser, DocText(documents[i])), reports[i])

\* ------------------------------------------------------------------------
\* C20: however the text is cut into chunks, parseStream resolves to the
\* value parse returns for the whole text and rejects when that parse
\* throws; while the stream is open the chunks are only accumulated.
\* ------------------------------------------------------------------------
C20_Stream ==
  /\ pc = "open" =>
       /\ buffer \o concat(source) = text.v
       /\ chunks = <<>>
       /\ promise = None
  /\ pc = "settled" => promise = parse(parser, text.v)

\* ------------------------------------------------------------------------
\* C21: a ToonLineParser emits, in order, one parsed value for each block of
\* the text between blank-line separators that is not blank, whatever the
\* cut into chunks; the values emitted while the stream is open are the
\* first of them, and the last block is emitted when the stream ends.
\* ------------------------------------------------------------------------
RECURSIVE BlockValues(_, _)
\* the parse of every block that is not blank, in order
BlockValues(p, blocks) ==
  IF blocks = <<>> THEN <<>>
  ELSE (IF trim(Head(blocks)) # <<>> THEN <<parse(p, Head(blocks))>> ELSE <<>>)
         \o BlockValues(p, Tail(blocks))

AllParse(results) == \A i \in 1..Len(results) : IsOk(results[i])

Emitted(results) ==
  /\ pc # "errored"
  /\ IsPrefix(chunks, [i \in 1..Len(results) |-> results[i].v])
  /\ pc = "ended" => Len(chunks) = Len(results)

C21_Lines ==
  AllParse(BlockValues(parser, splitBlocks(text.v)))
    => Emitted(BlockValues(parser, splitBlocks(text.v)))

\* ------------------------------------------------------------------------
\* C22: for every string and every delimiter, parsePrimitive of the quoted
\* string is that string, never a number, a boolean or null and with no
\* character added, dropped or changed; and unescapeString of the escaped
\* string is the string.
\* ------------------------------------------------------------------------
C22_Symmetry ==
  /\ pc = "primitive" => parsed = Ok(input)
  /\ pc = "unescaped" => parsed = Ok(input)

\* a string with a backslash, a letter and a quote went through quotes
C22_Witness ==
  /\ pc = "primitive"
  /\ input.s = <<"\\", "n", "\"">>
  /\ text.v # input.s

\* ------------------------------------------------------------------------
\* C23: blank lines put anywhere in a document (at the start, at the end,
\* between its lines) leave the value parse returns unchanged, and a
\* document that fails to parse still fails, in strict and non-strict mode.
\* ------------------------------------------------------------------------
SameOutcome(a, b) == IF IsOk(a) THEN a = b ELSE a.err = b.err

RECURSIVE WithoutIndentation(_)
WithoutIndentation(line) ==
  IF line # <<>> /\ Head(line) \in {" ", "\t"} THEN WithoutIndentation(Tail(line)) ELSE line

ContentsStripped(processedLines) ==
  IsOk(processedLines) =>
    \A i \in 1..Len(processedLines.v) :
      processedLines.v[i].content = WithoutIndentation(processedLines.v[i].raw)

C24_Content ==
  (pc = "parsed" /\ doc.kind = "indent") =>
    ContentsStripped(processLines(split(text.v, "\n"), 0, parser))

\* ------------------------------------------------------------------------
\* C25: parseObject at depth d takes its keys from the lines of depth d only
\* and stops at the first line of lesser depth, whose index it returns; a
\* "key:" line is the object of the depth d + 1 lines after it, or the empty
\* object when the next line is not deeper.
\* ------------------------------------------------------------------------
\* the 0-based index of the first line from lo on that is less deep than d
BlockEnd(depths, lo, d) ==
  LET less == {i \in lo..(Len(depths) - 1) : depths[i + 1] < d}
  IN  IF less = {} THEN Len(depths) ELSE CHOOSE i \in less : \A j \in less : i <= j

RECURSIVE BlockEntries(_, _, _, _)
\* the entries of the lines of depth d among the lines lo..(hi - 1)
BlockEntries(doc0, lo, hi, d) ==
  IF lo >= hi THEN <<>>
  ELSE (IF doc0.depths[lo + 1] # d THEN <<>>
        ELSE <<Entry(<<KeyLetters[lo + 1]>>,
                 IF ~doc0.opens[lo + 1] THEN IntV(1)
                 ELSE IF lo + 1 < Len(doc0.depths) /\ doc0.depths[lo + 2] > d
                 THEN ObjV(BlockEntries(doc0, lo + 1, BlockEnd(doc0.depths, lo + 1, d + 1), d + 1))
                 ELSE EmptyObj)>>)
         \o BlockEntries(doc0, lo + 1, hi, d)

C25_ObjectBlock ==
  (doc.kind = "object" /\ pc = "object") =>
    parsed = Step(ObjV(BlockEntries(doc, doc.start, BlockEnd(doc.depths, doc.start, doc.depth),
                                    doc.depth)),
                  BlockEnd(doc.depths, doc.start, doc.depth))

\* a "key:" line at depth 1 takes the deeper line after it, and the call
\* stops at the line of depth 0, the last one
C25_Witness ==
  /\ doc.kind = "object" /\ pc = "object"
  /\ doc.depths = <<1, 2, 0>> /\ doc.opens = <<TRUE, FALSE, FALSE>>
  /\ doc.start = 0 /\ doc.depth = 1
  /\ IsOk(parsed) /\ parsed.v.nextIdx = 2

\* ------------------------------------------------------------------------
\* C26: a header with a value on its line is an inline array, its values
\* split by the header's delimiter, also when it declares fields; without a
\* value a header that declares fields is tabular; without either it is a
\* list.  The delimiter is the tab or pipe marker in the brackets, else the
\* comma.  A strict parse that fails does so on the length only.
\* ------------------------------------------------------------------------
Letters(strs) == [i \in 1..Len(strs) |-> StrV(strs[i])]

RowOf(p, q) == ObjV(<<Entry(<<"a">>, StrV(<<p>>)), Entry(<<"b">>, StrV(<<q>>))>>)

Dispatched(d) ==
  IF d.value # ""
  THEN ArrV(IF d.value = MarkerDelimiter(d.marker) THEN Letters(<<<<"x">>, <<"y">>>>)
            ELSE Letters(<<<<"x", d.value, "y">>>>))
  ELSE IF d.fields
  THEN ArrV(IF d.follow THEN <<RowOf("p", "q"), RowOf("r", "s")>> ELSE <<>>)
  ELSE ArrV(IF d.follow THEN Letters(<<<<"p">>, <<"q">>>>) ELSE <<>>)

DispatchedRoot(d) ==
  IF d.keyed THEN ObjV(<<Entry(<<"k">>, Dispatched(d))>>) ELSE Dispatched(d)

C26_Dispatch ==
  (doc.kind = "dispatch" /\ pc = "parsed") =>
    IF IsOk(parsed) THEN parsed.v = DispatchedRoot(doc)
    ELSE /\ parser.strict
         /\ parsed.err \in {"InlineLengthMismatch", "TabularLengthMismatch", "ListLengthMismatch"}
         /\ Len(Dispatched(doc).items) # 2

\* a header with the pipe marker and fields, a value on its line and rows
\* under it: the inline array of the value split at the pipe
C26_Witness ==
  /\ doc.kind = "dispatch" /\ pc = "parsed"
  /\ doc.marker = "|" /\ doc.fields /\ doc.value = "|" /\ doc.follow /\ doc.keyed
  /\ parser.strict
  /\ IsOk(parsed)

\* ------------------------------------------------------------------------
\* C27: parsePrimitive classifies a token by the first rule that matches:
\* a span enclosed in double quotes is the unescaped string between the
\* quotes; true, false and null are the boolean or null; a digit string with
\* a leading zero is that string; a token of the number pattern with a
\* finite value is that number; anything else is the trimmed token as a
\* string.  A quoted token is never a number, a boolean or null.
\* ------------------------------------------------------------------------
\* an opening quote, a closing quote, and what is between them
QuotedSpan(t) == Len(t) >= 2 /\ t[1] = "\"" /\ t[Len(t)] = "\""

DigitRun(t) == Len(t) > 0 /\ \A i \in 1..Len(t) : t[i] \in Digit

FractionPart(t) == t = <<>> \/ (t[1] = "." /\ DigitRun(Tail(t)))

ExponentPart(t) ==
  \/ t = <<>>
  \/ /\ t[1] \in {"e", "E"}
     /\ \/ DigitRun(Tail(t))
        \/ Len(t) >= 2 /\ t[2] \in {"+", "-"} /\ DigitRun(Tail(Tail(t)))

\* optional sign, digits, optional fraction, optional exponent
NumberPattern(t) ==
  LET u == IF Len(t) > 0 /\ t[1] = "-" THEN Tail(t) ELSE t
  IN  \E i \in 1..Len(u) : \E j \in i..Len(u) :
        /\ DigitRun(SubSeq(u, 1, i))
        /\ FractionPart(SubSeq(u, i + 1, j))
        /\ ExponentPart(SubSeq(u, j + 1, Len(u)))

Classified(t, r) ==
  IF QuotedSpan(t)
  THEN r.t = "str" /\ Ok(r.s) = unescapeString(SubSeq(t, 2, Len(t) - 1), TRUE)
  ELSE IF t = <<"t", "r", "u", "e">> THEN r = BoolV(TRUE)
  ELSE IF t = <<"f", "a", "l", "s", "e">> THEN r = BoolV(FALSE)
  ELSE IF t = <<"n", "u", "l", "l">> THEN r = NullV
  ELSE IF DigitRun(t) /\ Len(t) >= 2 /\ t[1] = "0" THEN r = StrV(t)
  ELSE IF NumberPattern(t) /\ NumberIsFinite(NumberOf(t))
  THEN r.t = "num" /\ r.n = NumberOf(t)
  ELSE r = StrV(t)

C27_Classify ==
  (pc = "classified" /\ IsOk(parsed)) => Classified(trim(input.s), parsed.v)

\* ------------------------------------------------------------------------
\* C28: in strict mode a line whose array header is malformed (the text
\* between the brackets is not a non-negative integer with an optional tab
\* or pipe marker after it) makes parse fail instead of returning an array.
\* ------------------------------------------------------------------------
WellFormedBrackets(c) ==
  \/ DigitRun(c)
  \/ Len(c) >= 2 /\ c[Len(c)] \in {"\t", "|"} /\ DigitRun(SubSeq(c, 1, Len(c) - 1))

C28_Malformed ==
  (doc.kind = "header" /\ pc = "parsed" /\ parser.strict /\ ~WellFormedBrackets(doc.content))
    => ~IsOk(parsed)

\* ------------------------------------------------------------------------
\* C29: in a list array each line "- ..." one level under the header is one
\* element: an inline array when its remainder is an array header, an
\* object when it has an unquoted colon (the first field from the item
\* line, the further fields from the lines two levels under the header, each
\* value decoded as in an ordinary object entry), a primitive otherwise; a
\* quoted primitive is a string also when it has brackets or colons in it.
\* ------------------------------------------------------------------------
FieldA == Entry(<<"a">>, IntV(1))

ItemValue(kind) ==
  CASE kind = "primitive" -> StrV(<<"p">>)
    [] kind = "number" -> IntV(42)
    [] kind = "quoted" -> StrV(<<"4", "2">>)
    [] kind = "quotedColon" -> StrV(<<"a", ":", " ", "b">>)
    [] kind = "quotedBrackets" -> StrV(<<"a", "[", "1", "]">>)
    [] kind = "inline" -> ArrV(<<StrV(<<"x">>), StrV(<<"y">>)>>)
    [] kind = "object" -> ObjV(<<FieldA>>)
    [] kind = "fields" ->
         ObjV(<<FieldA, Entry(<<"b">>, BoolV(TRUE)), Entry(<<"c">>, StrV(<<"z">>))>>)
    [] kind = "quotedField" -> ObjV(<<FieldA, Entry(<<"b">>, StrV(<<"x", ":", " ", "y">>))>>)
    [] kind = "arrayField" ->
         ObjV(<<FieldA, Entry(<<"t">>, ArrV(<<StrV(<<"x">>), StrV(<<"y">>)>>))>>)
    [] kind = "emptyField" -> ObjV(<<Entry(<<"a">>, EmptyObj)>>)

ListValue(d) == ObjV(<<Entry(<<"k">>, ArrV([i \in 1..Len(d.items) |-> ItemValue(d.items[i])]))>>)

C29_ListItems ==
  (doc.kind = "list" /\ pc = "parsed") => (IsOk(parsed) /\ parsed.v = ListValue(doc))

\* ------------------------------------------------------------------------
\* C30: every parse terminates and the cursor only moves forward: a turn of
\* the object, tabular or list loop ends with the cursor further than it
\* began; a nested call of parseObject or parseArrayContent returns an index
\* greater than that of the line that made the call and at most the number
\* of lines; the nested calls in progress are no more than the lines.
\* ------------------------------------------------------------------------
\* the step to come of a parse in progress
StepToCome == stepOf(ParsedLines.v, frames, frames[Len(frames)], parser.strict)

\* what the step to come does to the cursors: a turn or a call leaves the
\* cursor on top further than it was; a return hands back an index greater
\* than the line that made the call, at most the number of lines, and ends
\* the caller's turn with the caller's cursor further than it was and not
\* behind the index returned.  So the pair (lines left after the cursor on
\* top, calls in progress) decreases with every step, and the parse ends.
CursorForward ==
  (pc = "parsing") =>
    LET n == Len(ParsedLines.v)
        top == frames[Len(frames)]
        next == StepToCome
        after == next.frames
    IN  CASE next.pc = "thrown" -> TRUE
          [] next.pc = "returned" -> top.from < top.idx /\ top.idx <= n
          [] next.pc = "parsing" /\ Len(after) = Len(frames) ->
               after[Len(after)].idx > top.idx /\ after[Len(after)].idx <= n
          [] next.pc = "parsing" /\ Len(after) = Len(frames) + 1 ->
               /\ after[Len(after)].from = top.idx
               /\ after[Len(after)].idx > top.idx
               /\ after[Len(after)].idx <= n
          [] next.pc = "parsing" /\ Len(after) = Len(frames) - 1 ->
               /\ top.from < top.idx /\ top.idx <= n
               /\ after[Len(after)].idx >= top.idx
               /\ after[Len(after)].idx > frames[Len(after)].idx
               /\ after[Len(after)].idx <= n
          [] OTHER -> FALSE

\* the calls in progress: each was made by a later line than the one before,
\* so the nested ones are no more than the lines
CursorBound ==
  (pc = "parsing") =>
    /\ \A i \in 1..Len(frames) :
         frames[i].from < frames[i].idx /\ frames[i].idx <= Len(ParsedLines.v)
    /\ \A i \in 2..Len(frames) :
         frames[i - 1].from < frames[i].from /\ frames[i].from < Len(ParsedLines.v)
    /\ Len(frames) - 1 <= Len(ParsedLines.v)

C30_Forward == CursorForward /\ CursorBound

\* a list item's first field being parsed by a nested parseObject, two calls
\* deep, its cursor at the end of the lines
C30_Witness ==
  /\ pc = "parsing" /\ Len(frames) = 3
  /\ frames[2].fn = "list" /\ frames[3].fn = "object"
  /\ frames[3].from = 1 /\ frames[3].idx = 3 /\ Len(ParsedLines.v) = 3

====
